---- MODULE Spec2Model ----
(***************************************************************************)
(* Order execution engine of trade_automation (src/logic.py, AppLogic).    *)
(*                                                                         *)
(* The store (batch_jobs, batch_items, orders), the broker's order book    *)
(* and the worker pipeline scheduler -> execution -> sync -> OCO -> EOD -> *)
(* finalize are modelled.  The GUI intents (submit, manual close, cancel   *)
(* scheduled) run on the same Qt thread as the timer, so they are taken    *)
(* only while no pipeline is in progress.                                  *)
(*                                                                         *)
(* NULL columns are 0 (order ids, prices) or "" (hold id).                 *)
(***************************************************************************)
EXTENDS Integers, Sequences, FiniteSets, TLC

VARIABLES
    accounts,   \* api_accounts: sequence of is_active flags, by id
    jobs,       \* batch_jobs: sequence of rows, by id
    items,      \* batch_items: sequence of rows, by id
    orders,     \* orders table: api_order_id -> row
    broker,     \* the broker's order book: sequence of orders, by order id
    now,        \* the wall clock, in model time units
    pc,         \* position of the worker tick in its pipeline
    worker_busy,\* AppLogic._worker_busy
    event_logs, \* event_logs: the rows the GUI intents insert (submit, cancel
                \* of a reserved item, manual close), in order of insertion;
                \* the DEBUG rows of _log_payload_debug are left out
    form,       \* the rows of the order form when the submit button was pressed
    toast,      \* the dialog a GUI intent showed last
    post,       \* the POST /sendorder call in progress: requested exchange,
                \* the broker's answer per exchange, attempts sent, outcome
    notified_error_keys, \* AppLogic._notified_error_keys
    surfaced,   \* the dialogs of _notify_new_item_errors so far: the keys of
                \* the rows each one reported
    status_label, \* the text of window.status_label as _worker_tick sets it
    api_token,  \* AppLogic._api_token: the cached token, NULL when none
    broker_token, \* the token the broker accepts at present, NULL when none
    call,       \* the authenticated broker call made last and how it ended
    db_retry    \* the _run_with_db_retry call in progress: attempts made, the
                \* outcome of the last one, how the call ended

vars == <<accounts, jobs, items, orders, broker, now, pc,
          worker_busy, event_logs, form, toast, post,
          notified_error_keys, surfaced, status_label,
          api_token, broker_token, call, db_retry>>

-----------------------------------------------------------------------------
(* Bounds of the model *)

MaxJobs == 1
MaxLegs == 1
MaxQty == 1
MaxPrice == 2
MaxDiff == 1
MaxOrders == 4
MaxManual == 1
MaxNow == 1
MaxBatches == 2
MaxFormRows == 2
MaxAccounts == 3
MaxErrorRows == 21
MaxTokens == 6

(* The cutoff "14:30" of _eod_step, in model time units *)
EodCutoff == 1

(* LIMIT 20 of the query of _notify_new_item_errors *)
NotifyLimit == 20

NULL == 0

(* scheduled_at IS NULL *)
NoTime == 0 - 1

Symbols == {"7203"}
Products == {"cash", "margin"}
Sides == {"buy", "sell"}


-----------------------------------------------------------------------------
(* Pure helpers *)

Max(a, b) == IF a >= b THEN a ELSE b

SideToKabu(side) == IF side = "buy" THEN "2" ELSE "1"

KabuSideToInternal(side) ==
    IF side = "1" THEN "sell" ELSE IF side = "2" THEN "buy" ELSE ""

CloseSide(side) == IF side = "buy" THEN "sell" ELSE "buy"

(* Variant: any non-empty id passes for a hold id *)
IsValidHoldIdAny(hold_id) == Len(hold_id) > 0

IsValidHoldId(hold_id) == Len(hold_id) > 0 /\ SubSeq(hold_id, 1, 1) = "E"

(* State code of the broker's order snapshot -> order status *)
OrderStatusFromApi(state) ==
    IF state \in {1, 2} THEN "WORKING"
    ELSE IF state \in {3, 4} THEN "PARTIAL"
    ELSE IF state = 5 THEN "FILLED"
    ELSE IF state \in {6, 7} THEN "CANCELLED"
    ELSE "UNKNOWN"

(* Average price of a snapshot order: its positive Price, else none *)
ExtractOrderAvgPrice(o) == IF o.price > 0 THEN o.price ELSE NULL

(* Variant: the direction is checked, the sign of the prices is not *)
ValidateOcoPricesNoSign(side, avg, tp_abs, sl_abs) ==
    IF side = "buy" THEN tp_abs > avg /\ sl_abs < avg
    ELSE IF side = "sell" THEN tp_abs < avg /\ sl_abs > avg
    ELSE FALSE

(* TRUE when _validate_oco_prices returns None (prices accepted) *)
ValidateOcoPrices(side, avg, tp_abs, sl_abs) ==
    IF tp_abs <= 0 \/ sl_abs <= 0 THEN FALSE
    ELSE IF side = "buy" THEN tp_abs > avg /\ sl_abs < avg
    ELSE IF side = "sell" THEN tp_abs < avg /\ sl_abs > avg
    ELSE FALSE

(* The active account: the highest id with is_active = 1, else NULL *)
GetActiveApiAccount ==
    LET act == {a \in 1..Len(accounts) : accounts[a]}
    IN IF act = {} THEN NULL ELSE CHOOSE a \in act : \A b \in act : b <= a

ItemIds == 1..Len(items)
JobIds == 1..Len(jobs)

Remaining(it) == Max(it.entry_filled_qty - it.closed_qty, 0)

(* Ascending sequence of the members of a set of ids *)
RECURSIVE SortedSeq(_)
SortedSeq(S) ==
    IF S = {} THEN <<>>
    ELSE LET m == CHOOSE x \in S : \A y \in S : x <= y
         IN <<m>> \o SortedSeq(S \ {m})

-----------------------------------------------------------------------------
(* Broker side of the REST calls *)

Live(o) == o.state \in {1, 2, 3, 4}

(* POST /sendorder accepted: the order enters the book, id = its position *)
BrokerAccept(bk, item_id, role, side, qty, price, trigger, hold_id) ==
    Append(bk, [item |-> item_id, role |-> role, side |-> side, qty |-> qty,
                sent_price |-> price, trigger |-> trigger, hold_id |-> hold_id,
                state |-> 1, cum |-> 0, price |-> 0])

(* PUT /cancelorder that reached the broker: a live order is cancelled *)
BrokerCancel(bk, oid) ==
    IF oid \in 1..Len(bk) /\ Live(bk[oid])
    THEN [bk EXCEPT ![oid].state = 6]
    ELSE bk

(* INSERT OR REPLACE INTO orders ... status 'NEW' *)
RecordOrder(ords, item_id, role, api_order_id, qty) ==
    (api_order_id :> [batch_item_id |-> item_id, order_role |-> role, qty |-> qty,
                      status |-> "NEW", cum_qty |-> 0]) @@ ords

-----------------------------------------------------------------------------
(* No authenticated call made yet *)
NoCall == [op |-> "", result |-> "", requests |-> 0]

(* No _run_with_db_retry call in progress *)
NoRetry == [retries |-> 0, attempt |-> 0, runs |-> 0, slept |-> 0, last |-> "",
            status |-> "", result |-> ""]

(* No POST /sendorder call in progress *)
NoPost == [exchange |-> NULL, answers |-> <<>>, sent |-> <<>>, result |-> "", resolved |-> NULL]

Init ==
    /\ accounts = <<TRUE>>
    /\ jobs = <<>>
    /\ items = <<>>
    /\ orders = <<>>
    /\ broker = <<>>
    /\ now = 0
    /\ pc = "idle"
    /\ worker_busy = FALSE
    /\ event_logs = <<>>
    /\ form = <<>>
    /\ toast = ""
    /\ post = NoPost
    /\ notified_error_keys = {}
    /\ surfaced = <<>>
    /\ status_label = ""
    /\ api_token = NULL
    /\ broker_token = NULL
    /\ call = NoCall
    /\ db_retry = NoRetry

-----------------------------------------------------------------------------
(* GUI intents *)

(* One order row of the form, as the user filled it in *)
LegMenu ==
    [symbol : Symbols, product : Products, side : Sides, qty : 1..MaxQty,
     entry_type : {"market"}, limit_price : {0},
     tp_diff : 1..MaxDiff, sl_diff : 1..MaxDiff]

(* Variant: the quantity of a row is not looked at *)
RowHasErrorNoQty(row) ==
    \/ row.symbol = ""
    \/ (row.entry_type = "limit" /\ row.limit_price < 1)
    \/ row.sl_diff < 1
    \/ row.tp_diff < 1

(* TradeOrderPage.get_order_validation_errors: TRUE when a row is rejected *)
RowHasError(row) ==
    \/ row.symbol = ""
    \/ (row.entry_type = "limit" /\ row.limit_price < 1)
    \/ row.sl_diff < 1
    \/ row.tp_diff < 1
    \/ row.qty < 1

(* TradeOrderPage.get_orders_payload: offsets signed by side *)
OrderPayload(row) ==
    [symbol |-> row.symbol, product |-> row.product, side |-> row.side,
     qty |-> row.qty, entry_type |-> row.entry_type,
     entry_price |-> IF row.entry_type = "limit" THEN row.limit_price ELSE NULL,
     tp_price |-> IF row.side = "buy" THEN row.tp_diff ELSE 0 - row.tp_diff,
     sl_trigger_price |-> IF row.side = "buy" THEN 0 - row.sl_diff ELSE row.sl_diff]

(* Variant: every item is filed under the first job *)
NewItemOfFirstJob(job_id, o) ==
    [batch_job_id |-> 1, symbol |-> o.symbol, product |-> o.product,
     side |-> o.side, qty |-> o.qty, entry_type |-> o.entry_type,
     entry_price |-> o.entry_price, tp_price |-> o.tp_price,
     sl_trigger_price |-> o.sl_trigger_price, status |-> "READY",
     entry_order_id |-> NULL, tp_order_id |-> NULL, sl_order_id |-> NULL,
     eod_order_id |-> NULL, entry_filled_qty |-> 0, entry_avg_price |-> NULL,
     closed_qty |-> 0, hold_id |-> ""]

NewItem(job_id, o) ==
    [batch_job_id |-> job_id, symbol |-> o.symbol, product |-> o.product,
     side |-> o.side, qty |-> o.qty, entry_type |-> o.entry_type,
     entry_price |-> o.entry_price, tp_price |-> o.tp_price,
     sl_trigger_price |-> o.sl_trigger_price, status |-> "READY",
     entry_order_id |-> NULL, tp_order_id |-> NULL, sl_order_id |-> NULL,
     eod_order_id |-> NULL, entry_filled_qty |-> 0, entry_avg_price |-> NULL,
     closed_qty |-> 0, hold_id |-> ""]

RECURSIVE InsertItems(_, _, _)
InsertItems(its, job_id, payload) ==
    IF payload = <<>> THEN its
    ELSE InsertItems(Append(its, NewItem(job_id, Head(payload))), job_id, Tail(payload))

(* The outcomes of the transaction of submit_orders_to_db: committed, or    *)
(* an sqlite error that rolls it back                                       *)
DbOutcomes == {"ok", "error"}

(* submit_orders_to_db on the rows of the form: one job in SCHEDULED, one   *)
(* READY item per row and one BATCH_CREATED event, in one transaction       *)
SubmitOrdersToDb(rows, run_mode, scheduled_at) ==
    /\ pc = "idle"
    /\ form' = rows
    /\ LET payload == [k \in 1..Len(rows) |-> OrderPayload(rows[k])]
           job_id == Len(jobs) + 1
       IN IF rows = <<>> \/ \E k \in 1..Len(rows) : RowHasError(rows[k])
          THEN /\ toast' = "input_error"
               /\ UNCHANGED <<jobs, items, event_logs>>
          ELSE IF payload = <<>>
          THEN /\ toast' = "no_rows"
               /\ UNCHANGED <<jobs, items, event_logs>>
          ELSE IF GetActiveApiAccount = NULL
          THEN /\ toast' = "no_account"
               /\ UNCHANGED <<jobs, items, event_logs>>
          ELSE \E db \in DbOutcomes :
                 IF db = "error"
                 THEN /\ toast' = "save_failed"
                      /\ UNCHANGED <<jobs, items, event_logs>>
                 ELSE /\ jobs' = Append(jobs,
                             [status |-> "SCHEDULED", run_mode |-> run_mode,
                              scheduled_at |-> IF run_mode = "scheduled"
                                               THEN scheduled_at ELSE NoTime,
                              eod_force_close |-> 1])
                      /\ items' = InsertItems(items, job_id, payload)
                      /\ event_logs' = Append(event_logs,
                             [batch_job_id |-> job_id, event_type |-> "BATCH_CREATED"])
                      /\ toast' = "saved"
    /\ UNCHANGED <<accounts, orders, broker, now, pc, worker_busy, post,
                   notified_error_keys, surfaced, status_label,
                   api_token, broker_token, call, db_retry>>

Submit ==
    /\ Len(jobs) < MaxJobs
    /\ \E n \in 1..MaxLegs : \E rows \in [1..n -> LegMenu] :
         \E run_mode \in {"immediate", "scheduled"} : \E scheduled_at \in 1..MaxNow :
            SubmitOrdersToDb(rows, run_mode, scheduled_at)

(* A two-row form: both rows cash buys, run immediately *)
PairMenu == {row \in LegMenu : row.product = "cash" /\ row.side = "buy"}

SubmitPair ==
    /\ Len(jobs) < MaxJobs
    /\ \E rows \in [1..2 -> PairMenu] : SubmitOrdersToDb(rows, "immediate", 1)

(* The form filled with two margin buys of one symbol, sent at once *)
MarginMenu == {row \in LegMenu : row.product = "margin" /\ row.side = "buy"}

SubmitMargin ==
    /\ Len(jobs) < MaxJobs
    /\ \E rows \in [1..2 -> MarginMenu] : SubmitOrdersToDb(rows, "immediate", 1)

(* The form submitted again once the batch before it has ended: one-row     *)
(* forms of cash buys, each a batch of its own                              *)
SubmitBatch ==
    /\ Len(jobs) < MaxBatches
    /\ \A j \in JobIds : jobs[j].status \notin {"SCHEDULED", "RUNNING"}
    /\ \E rows \in [1..1 -> PairMenu] :
         \E run_mode \in {"immediate", "scheduled"} : \E scheduled_at \in 1..MaxNow :
            SubmitOrdersToDb(rows, run_mode, scheduled_at)

(* A two-row form of cash buys, sent at once or reserved for a time *)
SubmitReserved ==
    /\ Len(jobs) < MaxJobs
    /\ \E rows \in [1..2 -> PairMenu] :
         \E run_mode \in {"immediate", "scheduled"} : \E scheduled_at \in 1..MaxNow :
            SubmitOrdersToDb(rows, run_mode, scheduled_at)

(* A one-row form of a cash buy entered with a limit price, sent at once *)
LimitMenu ==
    [symbol : Symbols, product : {"cash"}, side : {"buy"}, qty : 1..MaxQty,
     entry_type : {"limit"}, limit_price : 1..MaxPrice,
     tp_diff : 1..MaxDiff, sl_diff : 1..MaxDiff]

SubmitLimit ==
    /\ Len(jobs) < MaxJobs
    /\ \E rows \in [1..1 -> LimitMenu] :
         \E run_mode \in {"immediate", "scheduled"} : \E scheduled_at \in 1..MaxNow :
            SubmitOrdersToDb(rows, run_mode, scheduled_at)

(* Variant: the job is cancelled with the first of its items *)
CancelScheduledItemWholeJob(item_id) ==
    /\ pc = "idle"
    /\ item_id \in ItemIds
    /\ LET it == items[item_id]
           job == jobs[it.batch_job_id]
       IN IF job.run_mode # "scheduled" \/ job.status # "SCHEDULED" \/ it.status # "READY"
          THEN UNCHANGED <<jobs, items, event_logs>>
          ELSE /\ items' = [items EXCEPT ![item_id].status = "CANCELLED"]
               /\ jobs' = [jobs EXCEPT ![it.batch_job_id].status = "CANCELLED"]
               /\ event_logs' = Append(event_logs,
                      [batch_job_id |-> it.batch_job_id, event_type |-> "SCHEDULE_CANCELLED"])
    /\ UNCHANGED <<accounts, orders, broker, now, pc, worker_busy, form, toast, post,
                   notified_error_keys, surfaced, status_label,
                   api_token, broker_token, call, db_retry>>

(* cancel_scheduled_item *)
CancelScheduledItem(item_id) ==
    /\ pc = "idle"
    /\ item_id \in ItemIds
    /\ LET it == items[item_id]
           job == jobs[it.batch_job_id]
       IN IF job.run_mode # "scheduled" \/ job.status # "SCHEDULED" \/ it.status # "READY"
          THEN UNCHANGED <<jobs, items, event_logs>>
          ELSE LET its == [items EXCEPT ![item_id].status = "CANCELLED"]
                   remain == {i \in ItemIds : its[i].batch_job_id = it.batch_job_id
                                              /\ its[i].status = "READY"}
               IN /\ items' = its
                  /\ event_logs' = Append(event_logs,
                         [batch_job_id |-> it.batch_job_id,
                          event_type |-> "SCHEDULE_CANCELLED"])
                  /\ jobs' = IF remain = {}
                             THEN [jobs EXCEPT ![it.batch_job_id].status = "CANCELLED"]
                             ELSE jobs
    /\ UNCHANGED <<accounts, orders, broker, now, pc, worker_busy, form, toast, post,
                   notified_error_keys, surfaced, status_label,
                   api_token, broker_token, call, db_retry>>

CancelScheduled == \E item_id \in ItemIds : CancelScheduledItem(item_id)

-----------------------------------------------------------------------------
(* The worker tick: _worker_tick runs the six steps in order *)

(* Variant: the scheduler takes up a scheduled job before its time *)
SchedulerPromotesAtOnce(job) == job.status = "SCHEDULED"

(* Variant: the scheduler takes up a job whatever its status *)
SchedulerPromotesAnyStatus(job) ==
    \/ (job.run_mode = "scheduled" /\ job.scheduled_at # NoTime /\ job.scheduled_at <= now)
    \/ job.run_mode = "immediate"

(* The WHERE clauses of _scheduler_step *)
SchedulerPromotes(job) ==
    /\ job.status = "SCHEDULED"
    /\ \/ (job.run_mode = "scheduled" /\ job.scheduled_at # NoTime /\ job.scheduled_at <= now)
       \/ job.run_mode = "immediate"

(* Variant: _worker_tick without its guard *)
WorkerTickNeverReturns == FALSE

(* Variant: _worker_tick without its finally clause *)
WorkerTickNoFinally == worker_busy

(* _worker_tick: finally: self._worker_busy = False *)
WorkerTickFinally == FALSE

(* _worker_tick: if self._worker_busy: return *)
WorkerTickReturns == worker_busy

(* _worker_tick sets the flag and runs _scheduler_step *)
RunSchedulerStep ==
    /\ worker_busy' = TRUE
    /\ jobs' = [j \in JobIds |->
                  IF SchedulerPromotes(jobs[j]) THEN [jobs[j] EXCEPT !.status = "RUNNING"]
                  ELSE jobs[j]]
    /\ pc' = "execution"
    /\ UNCHANGED <<accounts, items, orders, broker, now, event_logs, form, toast, post,
                   notified_error_keys, surfaced, status_label,
                   api_token, broker_token, call, db_retry>>

(* A timer tick that finds the worker idle *)
SchedulerStep ==
    /\ pc = "idle"
    /\ ~WorkerTickReturns
    /\ RunSchedulerStep

(* Variant: a failed placement leaves the item READY, to be sent again *)
ExecutionOneRetry(st, item_id, res) ==
    LET it == st.items[item_id]
        order_id == Len(st.broker) + 1
    IN IF res = "ok" /\ Len(st.broker) < MaxOrders
       THEN [st EXCEPT
               !.broker = BrokerAccept(st.broker, item_id, "entry", SideToKabu(it.side),
                                       it.qty, 0, 0, ""),
               !.items = [st.items EXCEPT ![item_id].status = "ENTRY_SENT",
                                          ![item_id].entry_order_id = order_id],
               !.orders = RecordOrder(st.orders, item_id, "entry", order_id, it.qty)]
       ELSE st

(* One iteration of the loop of _execution_step; st = [items, orders, broker] *)
ExecutionOne(st, item_id, res) ==
    LET it == st.items[item_id]
        order_id == Len(st.broker) + 1
    IN IF res = "ok" /\ Len(st.broker) < MaxOrders
       THEN [st EXCEPT
               !.broker = BrokerAccept(st.broker, item_id, "entry", SideToKabu(it.side),
                                       it.qty, IF it.entry_type = "market" THEN 0 ELSE it.entry_price,
                                       0, ""),
               !.items = [st.items EXCEPT ![item_id].status = "ENTRY_SENT",
                                          ![item_id].entry_order_id = order_id],
               !.orders = RecordOrder(st.orders, item_id, "entry", order_id, it.qty)]
       ELSE [st EXCEPT !.items = [st.items EXCEPT ![item_id].status = "ERROR"]]

RECURSIVE ExecutionLoop(_, _, _)
ExecutionLoop(st, rows, res) ==
    IF rows = <<>> THEN st
    ELSE ExecutionLoop(ExecutionOne(st, Head(rows), res[Head(rows)]), Tail(rows), res)

(* Variant: one item is sent per tick *)
ExecutionRowsFirstOnly ==
    LET ready == {i \in ItemIds : jobs[items[i].batch_job_id].status = "RUNNING"
                                  /\ items[i].status = "READY"}
    IN {i \in ready : \A k \in ready : i <= k}

(* Variant: the cancelled items of a started job are sent as well *)
ExecutionRowsWithCancelled ==
    {i \in ItemIds : jobs[items[i].batch_job_id].status = "RUNNING"
                    /\ items[i].status \in {"READY", "CANCELLED"}}

ExecutionRows ==
    {i \in ItemIds : jobs[items[i].batch_job_id].status = "RUNNING" /\ items[i].status = "READY"}

(* _execution_step *)
ExecutionStep ==
    /\ pc = "execution"
    /\ IF GetActiveApiAccount = NULL
       THEN UNCHANGED <<items, orders, broker>>
       ELSE \E res \in [ExecutionRows -> {"ok", "rejected"}] :
              LET st == ExecutionLoop([items |-> items, orders |-> orders, broker |-> broker],
                                      SortedSeq(ExecutionRows), res)
              IN /\ items' = st.items
                 /\ orders' = st.orders
                 /\ broker' = st.broker
    /\ pc' = "sync"
    /\ UNCHANGED <<accounts, jobs, now, worker_busy, event_logs, form, toast, post,
                   notified_error_keys, surfaced, status_label,
                   api_token, broker_token, call, db_retry>>

-----------------------------------------------------------------------------
(* Sync step *)

(* GET /positions: one record per margin entry order with shares left.  The *)
(* id is reported as HoldID ("E...") or, for prefix # "E", in another form. *)
PositionHoldId(prefix, oid) == prefix \o ToString(oid)

PositionLeaves(bk, oid, prefix) ==
    LET closing == {c \in 1..Len(bk) : bk[c].role # "entry"
                                       /\ bk[c].hold_id = PositionHoldId(prefix, oid)}
        RECURSIVE Sum(_)
        Sum(S) == IF S = {} THEN 0
                  ELSE LET c == CHOOSE x \in S : TRUE IN bk[c].cum + Sum(S \ {c})
    IN bk[oid].cum - Sum(closing)

FetchPositionsSnapshot(book, prefix) ==
    LET held == {oid \in 1..Len(book) :
                    /\ book[oid].role = "entry"
                    /\ items[book[oid].item].product = "margin"
                    /\ PositionLeaves(book, oid, "E") > 0}
        ids == SortedSeq(held)
    IN [k \in 1..Len(ids) |->
          [Symbol |-> items[book[ids[k]].item].symbol,
           Side |-> book[ids[k]].side,
           HoldID |-> PositionHoldId(prefix, ids[k]),
           LeavesQty |-> PositionLeaves(book, ids[k], "E")]]

(* Variant: the rows of every job are synced, whatever the job's status *)
SyncRowsAllJobs == ItemIds

(* Variant: a filled entry order gives ENTRY_FILLED with or without a price *)
SyncEntryStatusNoWait(status, avg_price) ==
    IF status = "FILLED" THEN "ENTRY_FILLED"
    ELSE IF status = "PARTIAL" THEN "ENTRY_PARTIAL"
    ELSE "ENTRY_SENT"

(* The item-status part of _sync for one row and its entry order *)
SyncEntryStatus(status, avg_price) ==
    IF status = "FILLED"
    THEN (IF avg_price # NULL THEN "ENTRY_FILLED" ELSE "ENTRY_FILLED_WAIT_PRICE")
    ELSE IF status = "PARTIAL" THEN "ENTRY_PARTIAL"
    ELSE "ENTRY_SENT"

SyncRows == {i \in ItemIds : jobs[items[i].batch_job_id].status = "RUNNING"}

(* Variant: an entry order missing from the snapshot is taken to be done *)
SyncItemMissingIsDone(it, book, by_id) ==
    IF it.entry_order_id # NULL /\ it.entry_order_id \in by_id
    THEN LET api_order == book[it.entry_order_id]
             status == OrderStatusFromApi(api_order.state)
             avg_price == ExtractOrderAvgPrice(api_order)
         IN [it EXCEPT !.status = SyncEntryStatus(status, avg_price),
                       !.entry_filled_qty = api_order.cum,
                       !.entry_avg_price = avg_price]
    ELSE IF it.entry_order_id # NULL THEN [it EXCEPT !.status = "CLOSED"]
    ELSE it

SyncItem(it, book, by_id) ==
    IF it.entry_order_id # NULL /\ it.entry_order_id \in by_id
    THEN LET api_order == book[it.entry_order_id]
             status == OrderStatusFromApi(api_order.state)
             avg_price == ExtractOrderAvgPrice(api_order)
         IN [it EXCEPT !.status = SyncEntryStatus(status, avg_price),
                       !.entry_filled_qty = api_order.cum,
                       !.entry_avg_price = avg_price]
    ELSE it

(* UPDATE orders SET status, cum_qty for every order id a RUNNING row holds *)
SyncOrderRows(book, by_id) ==
    LET held == UNION {{items[i].entry_order_id, items[i].tp_order_id,
                        items[i].sl_order_id, items[i].eod_order_id} : i \in SyncRows}
    IN [oid \in DOMAIN orders |->
          IF oid \in held /\ oid \in by_id
          THEN [orders[oid] EXCEPT !.status = OrderStatusFromApi(book[oid].state),
                                   !.cum_qty = book[oid].cum]
          ELSE orders[oid]]

(* Variant: an item that has a hold id stays a candidate *)
HoldCandidatesAnyHoldId(its, symbol) ==
    {i \in 1..Len(its) :
        /\ its[i].product = "margin"
        /\ its[i].symbol = symbol
        /\ its[i].status \in {"ENTRY_FILLED", "BRACKET_SENT", "ENTRY_PARTIAL"}
        /\ jobs[its[i].batch_job_id].status = "RUNNING"}

(* Hold-id reconciliation for one position record *)
HoldCandidates(its, symbol) ==
    {i \in 1..Len(its) :
        /\ its[i].product = "margin"
        /\ its[i].symbol = symbol
        /\ its[i].status \in {"ENTRY_FILLED", "BRACKET_SENT", "ENTRY_PARTIAL"}
        /\ its[i].hold_id = ""
        /\ jobs[its[i].batch_job_id].status = "RUNNING"}

HoldTarget(its, p) ==
    LET candidates == HoldCandidates(its, p.Symbol)
        position_side == KabuSideToInternal(p.Side)
        side_filtered == {i \in candidates : position_side = "" \/ its[i].side = position_side}
        open == {i \in side_filtered : Remaining(its[i]) > 0}
        matched == {i \in open : Remaining(its[i]) = p.LeavesQty}
        Diff(i) == IF Remaining(its[i]) >= p.LeavesQty
                   THEN Remaining(its[i]) - p.LeavesQty
                   ELSE p.LeavesQty - Remaining(its[i])
        nearest == {i \in open : \A j \in open :
                        Diff(i) < Diff(j) \/ (Diff(i) = Diff(j) /\ i <= j)}
    IN IF p.Symbol = "" \/ p.HoldID = "" \/ p.LeavesQty <= 0 THEN NULL
       ELSE IF candidates = {} THEN NULL
       ELSE IF ~IsValidHoldId(p.HoldID) THEN NULL
       ELSE IF matched # {} THEN CHOOSE i \in matched : \A j \in matched : i <= j
       ELSE IF nearest # {} THEN CHOOSE i \in nearest : TRUE
       ELSE NULL

(* UPDATE batch_items SET last_error=? on a row that carries the column *)
SetLastError(it, e) ==
    IF "last_error" \in DOMAIN it THEN [it EXCEPT !.last_error = e] ELSE it

(* The candidates of a valid position record none of which has shares left  *)
(* on the record's side: HOLD_ID_MATCH_NOT_FOUND                            *)
HoldStalled(its, p) ==
    LET candidates == HoldCandidates(its, p.Symbol)
        position_side == KabuSideToInternal(p.Side)
    IN IF p.Symbol = "" \/ p.HoldID = "" \/ p.LeavesQty <= 0 THEN {}
       ELSE IF ~IsValidHoldId(p.HoldID) THEN {}
       ELSE IF \E i \in candidates : /\ position_side = "" \/ its[i].side = position_side
                                     /\ Remaining(its[i]) > 0
       THEN {}
       ELSE candidates

RECURSIVE SyncPositions(_, _)
SyncPositions(its, positions) ==
    IF positions = <<>> THEN its
    ELSE LET p == Head(positions)
             target == HoldTarget(its, p)
             stalled == HoldStalled(its, p)
         IN SyncPositions(IF target = NULL
                          THEN [i \in 1..Len(its) |->
                                  IF i \in stalled THEN SetLastError(its[i], "hold")
                                  ELSE its[i]]
                          ELSE [its EXCEPT ![target] =
                                  [SetLastError(@, "") EXCEPT !.hold_id = p.HoldID]],
                          Tail(positions))

(* An order the sync step reads: held by an item of a RUNNING job *)
Tracked(oid) ==
    \E i \in SyncRows : oid \in {items[i].entry_order_id, items[i].tp_order_id,
                                  items[i].sl_order_id, items[i].eod_order_id}

(* What the exchange may have made of order o since the book was last read: *)
(* more of a live order is filled, it ends (5) or is cancelled (6); the     *)
(* fill price of an ended entry order appears with the end or later.        *)
ExchangeProgress(o) ==
    {o}
    \cup (IF Live(o) /\ o.role = "entry"
          THEN {[o EXCEPT !.state = state, !.cum = cum, !.price = price] :
                  state \in {3, 6}, cum \in o.cum..o.qty, price \in {0}}
               \cup {[o EXCEPT !.state = 5, !.cum = cum, !.price = price] :
                       cum \in o.cum..o.qty, price \in 0..MaxPrice}
          ELSE IF Live(o)
          THEN {[o EXCEPT !.state = 5, !.cum = o.qty], [o EXCEPT !.state = 6]}
          ELSE IF o.role = "entry" /\ o.state = 5 /\ o.price = 0
          THEN {[o EXCEPT !.price = price] : price \in 1..MaxPrice}
          ELSE {})

(* The books GET /orders may find when it lists the orders by_id.  The      *)
(* engine sees the book only through this call, so the exchange's progress  *)
(* since the last read is taken here, and only for the orders the call's    *)
(* result is used for.                                                      *)
RECURSIVE BooksAtRead(_, _)
BooksAtRead(n, by_id) ==
    IF n = 0 THEN {<<>>}
    ELSE {Append(bk, o) : bk \in BooksAtRead(n - 1, by_id),
                          o \in IF Tracked(n) /\ n \in by_id
                                 THEN ExchangeProgress(broker[n])
                                 ELSE {broker[n]}}

(* The order lists GET /orders may answer with, as far as _sync looks them  *)
(* up: the exchange decides which orders it lists; without a token          *)
(* _fetch_orders_snapshot returns []                                        *)
OrderListings(orders_res) ==
    IF orders_res = "ok" THEN SUBSET {oid \in 1..Len(broker) : Tracked(oid)} ELSE {{}}

(* The GET /positions outcomes that differ: the ids reported as HoldID     *)
(* ("E"), in another form ("X"), or the call failing                        *)
PositionOutcomes(book) ==
    IF FetchPositionsSnapshot(book, "E") = <<>> THEN {"E"} ELSE {"E", "X", "error"}

(* _sync_orders_step for one outcome of its two fetches.  orders_res: the   *)
(* GET /orders outcome, by_id and book what it lists; pos_res: the          *)
(* GET /positions outcome                                                   *)
SyncOrdersWith(orders_res, by_id, book, pos_res) ==
    /\ pc = "sync"
    /\ IF GetActiveApiAccount = NULL \/ orders_res = "error"
       THEN UNCHANGED <<items, orders, broker>>
       ELSE LET positions == IF pos_res = "error" \/ orders_res = "no_token" THEN <<>>
                             ELSE FetchPositionsSnapshot(book, pos_res)
                synced == [i \in ItemIds |->
                             IF i \in SyncRows THEN SyncItem(items[i], book, by_id)
                             ELSE items[i]]
            IN /\ broker' = book
               /\ orders' = SyncOrderRows(book, by_id)
               /\ items' = SyncPositions(synced, positions)
    /\ pc' = "oco"
    /\ UNCHANGED <<accounts, jobs, now, worker_busy, event_logs, form, toast, post,
                   notified_error_keys, surfaced, status_label,
                   api_token, broker_token, call, db_retry>>

(* _sync_orders_step *)
SyncOrdersStep ==
    /\ pc = "sync"
    /\ \E orders_res \in {"ok", "no_token", "error"} :
         IF GetActiveApiAccount = NULL \/ orders_res = "error"
         THEN SyncOrdersWith(orders_res, {}, broker, "E")
         ELSE \E by_id \in OrderListings(orders_res) :
              \E book \in BooksAtRead(Len(broker), by_id) :
              \E pos_res \in PositionOutcomes(book) :
                 SyncOrdersWith(orders_res, by_id, book, pos_res)

-----------------------------------------------------------------------------
(* Exit orders *)

(* Variant: the stop order is built without its trigger price *)
BuildExitPayloadNoTrigger(it, order_type, qty, price, trigger, hold_id) ==
    [ok |-> it.product = "cash" \/ IsValidHoldId(hold_id),
     side |-> SideToKabu(CloseSide(it.side)),
     qty |-> qty,
     price |-> IF order_type = "limit" THEN price ELSE 0,
     trigger |-> 0,
     hold_id |-> IF it.product = "cash" THEN "" ELSE hold_id]

(* _build_exit_payload: ok = FALSE when it raises (margin, hold id not valid) *)
BuildExitPayload(it, order_type, qty, price, trigger, hold_id) ==
    [ok |-> it.product = "cash" \/ IsValidHoldId(hold_id),
     side |-> SideToKabu(CloseSide(it.side)),
     qty |-> qty,
     price |-> IF order_type = "limit" THEN price ELSE 0,
     trigger |-> IF order_type \in {"market", "limit"} THEN 0 ELSE trigger,
     hold_id |-> IF it.product = "cash" THEN "" ELSE hold_id]

(* _api_post_order of an exit payload; res = "ok" when the broker accepts *)
PostAccepted(bk, res) == res = "ok" /\ Len(bk) < MaxOrders

PostExit(bk, item_id, role, payload) ==
    BrokerAccept(bk, item_id, role, payload.side, payload.qty, payload.price,
                 payload.trigger, payload.hold_id)

CancelOutcomes == {"ok", "http_error", "lost"}

(* _cancel_order_if_needed: the book after the call *)
CancelOrderIfNeeded(bk, api_order_id, res) ==
    IF api_order_id = NULL THEN bk
    ELSE IF res = "ok" THEN BrokerCancel(bk, api_order_id)
    ELSE bk

(* TRUE when _cancel_order_if_needed raises *)
CancelRaises(api_order_id, res) == api_order_id # NULL /\ res = "http_error"

-----------------------------------------------------------------------------
(* OCO step *)

OcoRows ==
    {i \in ItemIds :
        /\ jobs[items[i].batch_job_id].status = "RUNNING"
        /\ items[i].status \in {"ENTRY_FILLED", "ENTRY_FILLED_WAIT_PRICE"}
        /\ items[i].tp_order_id = NULL
        /\ items[i].sl_order_id = NULL}

BracketOutcomes == {"both", "tp_rejected", "sl_rejected", "mismatch"}

OcoAvg(it) ==
    IF it.entry_avg_price # NULL THEN it.entry_avg_price
    ELSE IF it.entry_price # NULL THEN it.entry_price
    ELSE 0

(* Variant: the TP order id is recorded as soon as TP is accepted *)
OcoOneRecordsTp(st, item_id, res) ==
    LET it == st.items[item_id]
        qty == Remaining(it)
        avg == OcoAvg(it)
        tp_abs == avg + it.tp_price
        sl_abs == avg + it.sl_trigger_price
        tp_payload == BuildExitPayload(it, "limit", qty, tp_abs, NULL, it.hold_id)
        sl_payload == BuildExitPayload(it, "stop", qty, NULL, sl_abs, it.hold_id)
        tp_order_id == Len(st.broker) + 1
        sl_order_id == Len(st.broker) + 2
        tp_ok == tp_payload.ok /\ PostAccepted(st.broker, IF res = "tp_rejected" THEN "rejected" ELSE "ok")
        bk1 == IF tp_ok THEN PostExit(st.broker, item_id, "tp", tp_payload) ELSE st.broker
        sl_ok == tp_ok /\ sl_payload.ok
                 /\ PostAccepted(bk1, IF res = "sl_rejected" THEN "rejected" ELSE "ok")
        bk2 == IF sl_ok THEN PostExit(bk1, item_id, "sl", sl_payload) ELSE bk1
        SetStatus(s) == [st EXCEPT !.items = [st.items EXCEPT ![item_id].status = s]]
    IN IF it.product = "margin" /\ it.hold_id = "" THEN st
       ELSE IF qty <= 0 THEN SetStatus("CLOSED")
       ELSE IF avg <= 0 THEN SetStatus("ENTRY_FILLED_WAIT_PRICE")
       ELSE IF ~ValidateOcoPrices(it.side, avg, tp_abs, sl_abs) THEN SetStatus("ERROR")
       ELSE IF ~(tp_ok /\ sl_ok /\ res # "mismatch")
            THEN [st EXCEPT !.broker = bk2,
                            !.items = [st.items EXCEPT
                                         ![item_id].status = "ERROR",
                                         ![item_id].tp_order_id =
                                             IF tp_ok THEN tp_order_id ELSE NULL]]
       ELSE [st EXCEPT
               !.broker = bk2,
               !.items = [st.items EXCEPT ![item_id].status = "BRACKET_SENT",
                                          ![item_id].tp_order_id = tp_order_id,
                                          ![item_id].sl_order_id = sl_order_id],
               !.orders = RecordOrder(RecordOrder(st.orders, item_id, "tp", tp_order_id, qty),
                                      item_id, "sl", sl_order_id, qty)]

(* One iteration of the first loop of _oco_step *)
OcoOne(st, item_id, res) ==
    LET it == st.items[item_id]
        qty == Remaining(it)
        avg == OcoAvg(it)
        tp_abs == avg + it.tp_price
        sl_abs == avg + it.sl_trigger_price
        tp_payload == BuildExitPayload(it, "limit", qty, tp_abs, NULL, it.hold_id)
        sl_payload == BuildExitPayload(it, "stop", qty, NULL, sl_abs, it.hold_id)
        tp_order_id == Len(st.broker) + 1
        sl_order_id == Len(st.broker) + 2
        tp_ok == tp_payload.ok /\ PostAccepted(st.broker, IF res = "tp_rejected" THEN "rejected" ELSE "ok")
        bk1 == IF tp_ok THEN PostExit(st.broker, item_id, "tp", tp_payload) ELSE st.broker
        sl_ok == tp_ok /\ sl_payload.ok
                 /\ PostAccepted(bk1, IF res = "sl_rejected" THEN "rejected" ELSE "ok")
        bk2 == IF sl_ok THEN PostExit(bk1, item_id, "sl", sl_payload) ELSE bk1
        SetStatus(s) == [st EXCEPT !.items = [st.items EXCEPT ![item_id].status = s]]
    IN IF it.product = "margin" /\ it.hold_id = "" THEN st
       ELSE IF qty <= 0 THEN SetStatus("CLOSED")
       ELSE IF avg <= 0 THEN SetStatus("ENTRY_FILLED_WAIT_PRICE")
       ELSE IF ~ValidateOcoPrices(it.side, avg, tp_abs, sl_abs) THEN SetStatus("ERROR")
       ELSE IF ~(tp_ok /\ sl_ok /\ res # "mismatch")
            THEN [st EXCEPT !.broker = bk2,
                            !.items = [st.items EXCEPT ![item_id].status = "ERROR"]]
       ELSE [st EXCEPT
               !.broker = bk2,
               !.items = [st.items EXCEPT ![item_id].status = "BRACKET_SENT",
                                          ![item_id].tp_order_id = tp_order_id,
                                          ![item_id].sl_order_id = sl_order_id],
               !.orders = RecordOrder(RecordOrder(st.orders, item_id, "tp", tp_order_id, qty),
                                      item_id, "sl", sl_order_id, qty)]

RECURSIVE OcoLoop(_, _, _)
OcoLoop(st, rows, res) ==
    IF rows = <<>> THEN st
    ELSE OcoLoop(OcoOne(st, Head(rows), res[Head(rows)]), Tail(rows), res)

OrderStatus(ords, oid) == IF oid \in DOMAIN ords THEN ords[oid].status ELSE "NONE"
OrderCum(ords, oid) == IF oid \in DOMAIN ords THEN ords[oid].cum_qty ELSE 0

(* BRACKET_SENT rows of RUNNING jobs one of whose legs is recorded FILLED *)
OcoCloseRows(its, ords) ==
    {i \in 1..Len(its) :
        /\ jobs[its[i].batch_job_id].status = "RUNNING"
        /\ its[i].status = "BRACKET_SENT"
        /\ \/ OrderStatus(ords, its[i].tp_order_id) = "FILLED"
           \/ OrderStatus(ords, its[i].sl_order_id) = "FILLED"}

(* Variant: the fills of both legs are added up into closed_qty *)
OcoCloseOneBothLegs(st, item_id, cres) ==
    LET it == st.items[item_id]
        tp_filled == OrderStatus(st.orders, it.tp_order_id) = "FILLED"
        other == IF tp_filled THEN it.sl_order_id ELSE it.tp_order_id
        cum == OrderCum(st.orders, it.tp_order_id) + OrderCum(st.orders, it.sl_order_id)
    IN IF st.raised THEN st
       ELSE IF CancelRaises(other, cres) THEN [st EXCEPT !.raised = TRUE]
       ELSE [st EXCEPT
               !.broker = CancelOrderIfNeeded(st.broker, other, cres),
               !.items = [st.items EXCEPT ![item_id].status = "CLOSED",
                                          ![item_id].closed_qty = cum]]

(* One iteration of the second loop of _oco_step; st.raised ends the tick *)
OcoCloseOne(st, item_id, cres) ==
    LET it == st.items[item_id]
        tp_filled == OrderStatus(st.orders, it.tp_order_id) = "FILLED"
        other == IF tp_filled THEN it.sl_order_id ELSE it.tp_order_id
        cum == IF tp_filled THEN OrderCum(st.orders, it.tp_order_id)
               ELSE OrderCum(st.orders, it.sl_order_id)
    IN IF st.raised THEN st
       ELSE IF CancelRaises(other, cres) THEN [st EXCEPT !.raised = TRUE]
       ELSE [st EXCEPT
               !.broker = CancelOrderIfNeeded(st.broker, other, cres),
               !.items = [st.items EXCEPT ![item_id].status = "CLOSED",
                                          ![item_id].closed_qty = cum]]

RECURSIVE OcoCloseLoop(_, _, _)
OcoCloseLoop(st, rows, cres) ==
    IF rows = <<>> THEN st
    ELSE OcoCloseLoop(OcoCloseOne(st, Head(rows), cres[Head(rows)]), Tail(rows), cres)

(* _oco_step with an active account, for one outcome of its broker calls:   *)
(* res the placements of the first loop, cres the cancel requests of the    *)
(* second.  A cancel that raises in the second loop ends the tick.          *)
OcoStepWith(res, cres) ==
    /\ pc = "oco"
    /\ LET st1 == OcoLoop([items |-> items, orders |-> orders, broker |-> broker,
                           raised |-> FALSE], SortedSeq(OcoRows), res)
           st2 == OcoCloseLoop(st1, SortedSeq(OcoCloseRows(items, orders)), cres)
       IN /\ items' = st2.items
          /\ orders' = st2.orders
          /\ broker' = st2.broker
          /\ pc' = IF st2.raised THEN "idle" ELSE "eod"
          /\ worker_busy' = IF st2.raised THEN WorkerTickFinally ELSE worker_busy
          /\ status_label' = IF st2.raised THEN "worker_error" ELSE status_label
    /\ UNCHANGED <<accounts, jobs, now, event_logs, form, toast, post,
                   notified_error_keys, surfaced,
                   api_token, broker_token, call, db_retry>>

(* _oco_step *)
OcoStep ==
    /\ pc = "oco"
    /\ IF GetActiveApiAccount = NULL
       THEN /\ pc' = "eod"
            /\ UNCHANGED <<accounts, jobs, items, orders, broker, now, worker_busy,
                           event_logs, form, toast, post,
                           notified_error_keys, surfaced, status_label,
                   api_token, broker_token, call, db_retry>>
       ELSE \E res \in [OcoRows -> BracketOutcomes] :
            \E cres \in [OcoCloseRows(items, orders) -> CancelOutcomes] :
               OcoStepWith(res, cres)

-----------------------------------------------------------------------------
(* EOD step and manual close *)

EodRows ==
    {i \in ItemIds :
        /\ jobs[items[i].batch_job_id].status = "RUNNING"
        /\ jobs[items[i].batch_job_id].eod_force_close = 1
        /\ items[i].status \in {"ENTRY_PARTIAL", "ENTRY_FILLED", "BRACKET_SENT"}}

CloseOutcomes == [tp : CancelOutcomes, sl : CancelOutcomes, post : {"ok", "rejected"}]

(* Outcomes of calls that are not made are fixed, so each run is taken once *)
CloseOutcomeUsed(it, res) ==
    /\ (it.tp_order_id = NULL => res.tp = "ok")
    /\ (it.sl_order_id = NULL \/ CancelRaises(it.tp_order_id, res.tp) => res.sl = "ok")
    /\ (\/ CancelRaises(it.tp_order_id, res.tp)
        \/ CancelRaises(it.sl_order_id, res.sl)
        \/ Remaining(it) <= 0
        \/ (it.product = "margin" /\ it.hold_id = "")
          => res.post = "ok")

(* The cancels of TP and SL that open both the EOD iteration and manual close *)
CancelBracket(bk, it, res) ==
    LET bk1 == CancelOrderIfNeeded(bk, it.tp_order_id, res.tp)
    IN IF CancelRaises(it.tp_order_id, res.tp) THEN bk
       ELSE CancelOrderIfNeeded(bk1, it.sl_order_id, res.sl)

(* Sends the market close of `remaining` and records it under `role` *)
MarketClose(st, item_id, role, remaining, res) ==
    LET it == st.items[item_id]
        payload == BuildExitPayload(it, "market", remaining, NULL, NULL, it.hold_id)
        order_id == Len(st.broker) + 1
    IN IF payload.ok /\ PostAccepted(st.broker, res.post)
       THEN [st EXCEPT
               !.broker = PostExit(st.broker, item_id, role, payload),
               !.orders = RecordOrder(st.orders, item_id, role, order_id, remaining),
               !.items = [st.items EXCEPT ![item_id].eod_order_id = order_id,
                                          ![item_id].status = "EOD_MARKET_SENT"]]
       ELSE [st EXCEPT !.items = [st.items EXCEPT ![item_id].status = "ERROR"]]

(* Variant: the market close is sent whatever remains *)
EodOneAlwaysSends(st, item_id, res) ==
    LET it == st.items[item_id]
        remaining == Remaining(it)
        cancelled == [st EXCEPT !.broker = CancelBracket(st.broker, it, res)]
    IN IF CancelRaises(it.tp_order_id, res.tp) \/ CancelRaises(it.sl_order_id, res.sl)
       THEN [cancelled EXCEPT !.items = [st.items EXCEPT ![item_id].status = "ERROR"]]
       ELSE IF it.product = "margin" /\ it.hold_id = "" THEN cancelled
       ELSE MarketClose(cancelled, item_id, "eod", remaining, res)

(* One iteration of the first loop of _eod_step *)
EodOne(st, item_id, res) ==
    LET it == st.items[item_id]
        remaining == Remaining(it)
        cancelled == [st EXCEPT !.broker = CancelBracket(st.broker, it, res)]
    IN IF CancelRaises(it.tp_order_id, res.tp) \/ CancelRaises(it.sl_order_id, res.sl)
       THEN [cancelled EXCEPT !.items = [st.items EXCEPT ![item_id].status = "ERROR"]]
       ELSE IF remaining <= 0
       THEN [cancelled EXCEPT !.items = [st.items EXCEPT ![item_id].status = "CLOSED"]]
       ELSE IF it.product = "margin" /\ it.hold_id = "" THEN cancelled
       ELSE MarketClose(cancelled, item_id, "eod", remaining, res)

RECURSIVE EodLoop(_, _, _)
EodLoop(st, rows, res) ==
    IF rows = <<>> THEN st
    ELSE EodLoop(EodOne(st, Head(rows), res[Head(rows)]), Tail(rows), res)

(* The second loop of _eod_step: EOD_MARKET_SENT rows whose order is FILLED *)
EodDone(its, ords) ==
    [i \in 1..Len(its) |->
        IF its[i].status = "EOD_MARKET_SENT" /\ OrderStatus(ords, its[i].eod_order_id) = "FILLED"
        THEN [its[i] EXCEPT !.status = "CLOSED"]
        ELSE its[i]]

(* _eod_step *)
EodStep ==
    /\ pc = "eod"
    /\ IF now < EodCutoff \/ GetActiveApiAccount = NULL
       THEN UNCHANGED <<items, orders, broker>>
       ELSE \E res \in [EodRows -> CloseOutcomes] :
              /\ \A i \in EodRows : CloseOutcomeUsed(items[i], res[i])
              /\ LET st == EodLoop([items |-> items, orders |-> orders, broker |-> broker],
                                   SortedSeq(EodRows), res)
                 IN /\ items' = EodDone(st.items, st.orders)
                    /\ orders' = st.orders
                    /\ broker' = st.broker
    /\ pc' = "finalize"
    /\ UNCHANGED <<accounts, jobs, now, worker_busy, event_logs, form, toast, post,
                   notified_error_keys, surfaced, status_label,
                   api_token, broker_token, call, db_retry>>

(* TRUE when manual_close_item returns before its try block *)
ManualCloseRefused(it) ==
    \/ GetActiveApiAccount = NULL
    \/ it.status = "CLOSED"
    \/ (it.product = "margin" /\ it.hold_id = "")
    \/ Remaining(it) <= 0

(* The try block of manual_close_item and what follows it *)
ManualCloseOut(item_id, res) ==
    LET it == items[item_id]
        st == [items |-> items, orders |-> orders,
               broker |-> CancelBracket(broker, it, res)]
    IN IF CancelRaises(it.tp_order_id, res.tp) \/ CancelRaises(it.sl_order_id, res.sl)
       THEN [st EXCEPT !.items = [items EXCEPT ![item_id].status = "ERROR"]]
       ELSE MarketClose(st, item_id, "manual", Remaining(it), res)

(* The event_logs row of manual_close_item: MANUAL_MARKET_CLOSE, in the     *)
(* transaction that records the order; its except branch writes none        *)
ManualCloseLogs(item_id, res) ==
    LET it == items[item_id]
        bk == CancelBracket(broker, it, res)
        payload == BuildExitPayload(it, "market", Remaining(it), NULL, NULL, it.hold_id)
    IN IF CancelRaises(it.tp_order_id, res.tp) \/ CancelRaises(it.sl_order_id, res.sl)
       THEN <<>>
       ELSE IF payload.ok /\ PostAccepted(bk, res.post)
       THEN <<[batch_job_id |-> it.batch_job_id, event_type |-> "MANUAL_MARKET_CLOSE"]>>
       ELSE <<>>

(* manual_close_item *)
ManualCloseItem(item_id) ==
    /\ pc = "idle"
    /\ item_id \in ItemIds
    /\ Cardinality({o \in 1..Len(broker) : broker[o].role = "manual"}) < MaxManual
    /\ IF ManualCloseRefused(items[item_id])
       THEN UNCHANGED <<items, orders, broker, event_logs>>
       ELSE \E res \in CloseOutcomes :
              /\ CloseOutcomeUsed(items[item_id], res)
              /\ LET out == ManualCloseOut(item_id, res)
                 IN /\ items' = out.items
                    /\ orders' = out.orders
                    /\ broker' = out.broker
                    /\ event_logs' = event_logs \o ManualCloseLogs(item_id, res)
    /\ UNCHANGED <<accounts, jobs, now, pc, worker_busy, form, toast, post,
                   notified_error_keys, surfaced, status_label,
                   api_token, broker_token, call, db_retry>>

ManualClose == \E item_id \in ItemIds : ManualCloseItem(item_id)

-----------------------------------------------------------------------------
(* Finalize step *)

(* Variant: one CLOSED item is enough for DONE *)
FinalizeAnyClosed(job_id) ==
    LET mine == {i \in ItemIds : items[i].batch_job_id = job_id}
    IN IF \E i \in mine : items[i].status = "CLOSED" THEN "DONE"
       ELSE IF \E i \in mine : items[i].status = "ERROR" THEN "ERROR"
       ELSE "RUNNING"

(* The status _finalize_jobs_step gives a RUNNING job *)
FinalizeJob(job_id) ==
    LET mine == {i \in ItemIds : items[i].batch_job_id = job_id}
        total == Cardinality(mine)
        closed == Cardinality({i \in mine : items[i].status = "CLOSED"})
        errors == Cardinality({i \in mine : items[i].status = "ERROR"})
    IN IF total > 0 /\ closed = total THEN "DONE"
       ELSE IF errors > 0 THEN "ERROR"
       ELSE "RUNNING"

(* _finalize_jobs_step, which ends the tick *)
FinalizeJobsStep ==
    /\ pc = "finalize"
    /\ jobs' = [j \in JobIds |->
                  IF jobs[j].status = "RUNNING"
                  THEN [jobs[j] EXCEPT !.status = FinalizeJob(j)]
                  ELSE jobs[j]]
    /\ pc' = "idle"
    /\ worker_busy' = WorkerTickFinally
    /\ UNCHANGED <<accounts, items, orders, broker, now, event_logs, form, toast, post,
                   notified_error_keys, surfaced, status_label,
                   api_token, broker_token, call, db_retry>>

(* The end of a tick in which _notify_new_item_errors has an item in ERROR  *)
(* to report: after _finalize_jobs_step the dialog opens, and the tick      *)
(* waits in the dialog's event loop with the flag still set                 *)
FinalizeJobsStepNotify ==
    /\ pc = "finalize"
    /\ \E i \in ItemIds : items[i].status = "ERROR"
    /\ jobs' = [j \in JobIds |->
                  IF jobs[j].status = "RUNNING"
                  THEN [jobs[j] EXCEPT !.status = FinalizeJob(j)]
                  ELSE jobs[j]]
    /\ pc' = "notify"
    /\ UNCHANGED <<accounts, items, orders, broker, now, worker_busy,
                   event_logs, form, toast, post,
                   notified_error_keys, surfaced, status_label,
                   api_token, broker_token, call, db_retry>>

(* The timer fires while the dialog is open *)
WorkerTickInDialog ==
    /\ pc = "notify"
    /\ IF WorkerTickReturns THEN UNCHANGED vars ELSE RunSchedulerStep

(* The dialog is closed: _worker_tick reaches its finally clause *)
NotifyClosed ==
    /\ pc = "notify"
    /\ pc' = "idle"
    /\ worker_busy' = WorkerTickFinally
    /\ UNCHANGED <<accounts, jobs, items, orders, broker, now, event_logs, form, toast, post,
                   notified_error_keys, surfaced, status_label,
                   api_token, broker_token, call, db_retry>>

-----------------------------------------------------------------------------
(* Environment: time passes *)

ClockAdvance ==
    /\ pc = "idle"
    /\ now < MaxNow
    /\ now' = now + 1
    /\ UNCHANGED <<accounts, jobs, items, orders, broker, pc,
                   worker_busy, event_logs, form, toast, post,
                   notified_error_keys, surfaced, status_label,
                   api_token, broker_token, call, db_retry>>

-----------------------------------------------------------------------------
Next ==
    \/ Submit
    \/ CancelScheduled
    \/ ManualClose
    \/ SchedulerStep
    \/ ExecutionStep
    \/ SyncOrdersStep
    \/ OcoStep
    \/ EodStep
    \/ FinalizeJobsStep
    \/ ClockAdvance

Spec == Init /\ [][Next]_vars

(* The same engine working a job of two items *)
NextPair ==
    \/ SubmitPair
    \/ ManualClose
    \/ SchedulerStep
    \/ ExecutionStep
    \/ SyncOrdersStep
    \/ OcoStep
    \/ EodStep
    \/ FinalizeJobsStep
    \/ ClockAdvance

SpecPair == Init /\ [][NextPair]_vars

-----------------------------------------------------------------------------
(* The order form by itself: rows as the validation is written for them,    *)
(* well-formed or with one defect, and the store before an API account is   *)
(* saved or after                                                           *)

GoodRow ==
    [symbol |-> "7203", product |-> "cash", side |-> "buy", qty |-> 1,
     entry_type |-> "market", limit_price |-> 0, tp_diff |-> 1, sl_diff |-> 1]

FormMenu ==
    {GoodRow,
     [GoodRow EXCEPT !.entry_type = "limit", !.limit_price = 1],
     [GoodRow EXCEPT !.entry_type = "limit", !.limit_price = 0],
     [GoodRow EXCEPT !.symbol = ""],
     [GoodRow EXCEPT !.qty = 0],
     [GoodRow EXCEPT !.tp_diff = 0],
     [GoodRow EXCEPT !.sl_diff = 0]}

InitForm ==
    /\ accounts \in {<<>>, <<TRUE>>}
    /\ jobs = <<>>
    /\ items = <<>>
    /\ orders = <<>>
    /\ broker = <<>>
    /\ now = 0
    /\ pc = "idle"
    /\ worker_busy = FALSE
    /\ event_logs = <<>>
    /\ form = <<>>
    /\ toast = ""
    /\ post = NoPost
    /\ notified_error_keys = {}
    /\ surfaced = <<>>
    /\ status_label = ""
    /\ api_token = NULL
    /\ broker_token = NULL
    /\ call = NoCall
    /\ db_retry = NoRetry

SubmitForm ==
    /\ Len(jobs) < MaxBatches
    /\ \E n \in 0..MaxFormRows : \E rows \in [1..n -> FormMenu] :
         \E run_mode \in {"immediate", "scheduled"} : \E scheduled_at \in 1..MaxNow :
            SubmitOrdersToDb(rows, run_mode, scheduled_at)

NextForm == SubmitForm

SpecForm == InitForm /\ [][NextForm]_vars

(* save_api_account: name, base URL and password filled in or not, the     *)
(* "active" box checked or not; the UPDATE and the INSERT are one          *)
(* transaction                                                              *)
SaveApiAccount ==
    /\ pc = "idle"
    /\ Len(accounts) < MaxAccounts
    /\ \E filled \in BOOLEAN : \E active \in BOOLEAN : \E db \in DbOutcomes :
         IF ~filled
         THEN /\ toast' = "api_input_error"
              /\ UNCHANGED <<accounts, api_token>>
         ELSE IF db = "error"
         THEN /\ toast' = "api_save_failed"
              /\ UNCHANGED <<accounts, api_token>>
         ELSE /\ accounts' = Append([a \in 1..Len(accounts) |-> FALSE], active)
              /\ api_token' = NULL
              /\ toast' = "api_saved"
    /\ UNCHANGED <<jobs, items, orders, broker, now, pc, worker_busy, event_logs, form, post,
                   notified_error_keys, surfaced, status_label,
                   broker_token, call, db_retry>>

(* The settings page and the order form *)
NextAccounts ==
    \/ SaveApiAccount
    \/ SubmitForm

SpecAccounts == InitForm /\ [][NextAccounts]_vars

-----------------------------------------------------------------------------
(* _api_post_order: one POST /sendorder call and its exchange fallback *)

(* The exchange codes _normalize_exchange lets through *)
ExchangeCodes == {1, 3, 5, 6, 9, 27}

(* What the broker does with a request for an exchange: it accepts it, or   *)
(* rejects it with the application code 4001005, or with another code       *)
Answers == {"accepted", "4001005", "rejected"}

(* Variant: the fallback codes in ascending order, whatever was requested *)
RetryExchangesAscending(current_exchange) ==
    SelectSeq(<<1, 9, 27>>, LAMBDA exchange : exchange # current_exchange)

(* retry_candidates_by_exchange, without the exchange already tried *)
RetryExchanges(current_exchange) ==
    LET retry_exchanges == IF current_exchange = 1 THEN <<9, 27>>
                           ELSE IF current_exchange = 9 THEN <<27, 1>>
                           ELSE IF current_exchange = 27 THEN <<9, 1>>
                           ELSE <<1, 9, 27>>
    IN SelectSeq(retry_exchanges, LAMBDA exchange : exchange # current_exchange)

(* The exchanges a call for an exchange may come to ask *)
AskedExchanges(exchange) == {exchange} \cup {1, 9, 27}

(* A call is made for some exchange, the broker's answers not yet known *)
InitPost ==
    /\ accounts = <<TRUE>>
    /\ jobs = <<>>
    /\ items = <<>>
    /\ orders = <<>>
    /\ broker = <<>>
    /\ now = 0
    /\ pc = "idle"
    /\ worker_busy = FALSE
    /\ event_logs = <<>>
    /\ form = <<>>
    /\ toast = ""
    /\ notified_error_keys = {}
    /\ surfaced = <<>>
    /\ status_label = ""
    /\ api_token = NULL
    /\ broker_token = NULL
    /\ call = NoCall
    /\ db_retry = NoRetry
    /\ \E exchange \in ExchangeCodes : \E answers \in [AskedExchanges(exchange) -> Answers] :
         post = [exchange |-> exchange, answers |-> answers, sent |-> <<>>,
                 result |-> "pending", resolved |-> NULL]

(* The first request, with the exchange of the payload *)
ApiPostOrderSend ==
    /\ post.result = "pending"
    /\ LET answer == post.answers[post.exchange]
       IN post' = [post EXCEPT
                     !.sent = <<post.exchange>>,
                     !.result = IF answer = "accepted" THEN "ok"
                                ELSE IF answer = "4001005"
                                        /\ RetryExchanges(post.exchange) # <<>>
                                     THEN "retrying"
                                ELSE "raised",
                     !.resolved = IF answer = "accepted" THEN post.exchange ELSE NULL]
    /\ UNCHANGED <<accounts, jobs, items, orders, broker, now, pc,
                   worker_busy, event_logs, form, toast,
                   notified_error_keys, surfaced, status_label,
                   api_token, broker_token, call, db_retry>>

(* The next request of the retry loop *)
ApiPostOrderRetry ==
    /\ post.result = "retrying"
    /\ LET retry_exchanges == RetryExchanges(post.exchange)
           retry_exchange == retry_exchanges[Len(post.sent)]
           answer == post.answers[retry_exchange]
       IN post' = [post EXCEPT
                     !.sent = Append(post.sent, retry_exchange),
                     !.result = IF answer = "accepted" THEN "ok"
                                ELSE IF retry_exchange = retry_exchanges[Len(retry_exchanges)]
                                     THEN "raised"
                                ELSE "retrying",
                     !.resolved = IF answer = "accepted" THEN retry_exchange ELSE NULL]
    /\ UNCHANGED <<accounts, jobs, items, orders, broker, now, pc,
                   worker_busy, event_logs, form, toast,
                   notified_error_keys, surfaced, status_label,
                   api_token, broker_token, call, db_retry>>

NextPost ==
    \/ ApiPostOrderSend
    \/ ApiPostOrderRetry

SpecPost == InitPost /\ [][NextPost]_vars

-----------------------------------------------------------------------------
(* The same engine working a batch of two margin items *)
NextMargin ==
    \/ SubmitMargin
    \/ SchedulerStep
    \/ ExecutionStep
    \/ SyncOrdersStep
    \/ OcoStep
    \/ EodStep
    \/ FinalizeJobsStep
    \/ ClockAdvance

SpecMargin == Init /\ [][NextMargin]_vars

(* The engine working a job entered with a limit price *)
NextLimit ==
    \/ SubmitLimit
    \/ SchedulerStep
    \/ ExecutionStep
    \/ SyncOrdersStep
    \/ OcoStep
    \/ EodStep
    \/ FinalizeJobsStep
    \/ ClockAdvance

SpecLimit == Init /\ [][NextLimit]_vars

(* The engine with the dialog of _notify_new_item_errors, during which the  *)
(* timer keeps firing                                                       *)
NextTick ==
    \/ Submit
    \/ SchedulerStep
    \/ ExecutionStep
    \/ SyncOrdersStep
    \/ OcoStep
    \/ EodStep
    \/ FinalizeJobsStep
    \/ FinalizeJobsStepNotify
    \/ WorkerTickInDialog
    \/ NotifyClosed
    \/ ClockAdvance

SpecTick == Init /\ [][NextTick]_vars

(* The same engine working several batches *)
NextBatches ==
    \/ SubmitBatch
    \/ CancelScheduled
    \/ ManualClose
    \/ SchedulerStep
    \/ ExecutionStep
    \/ SyncOrdersStep
    \/ OcoStep
    \/ EodStep
    \/ FinalizeJobsStep
    \/ ClockAdvance

SpecBatches == Init /\ [][NextBatches]_vars

(* The same engine working a reserved batch of two items, which the user    *)
(* may cancel item by item                                                  *)
NextReserved ==
    \/ SubmitReserved
    \/ CancelScheduled
    \/ SchedulerStep
    \/ ExecutionStep
    \/ SyncOrdersStep
    \/ OcoStep
    \/ EodStep
    \/ FinalizeJobsStep
    \/ ClockAdvance

SpecReserved == Init /\ [][NextReserved]_vars

-----------------------------------------------------------------------------
(* Error notification.  Of batch_items only the rows that have been in      *)
(* ERROR are kept here, with the columns last_error and updated_at the      *)
(* query reads; each has a job of its own.  Every UPDATE falls into a       *)
(* second of its own: now counts them.                                      *)

(* A filled cash buy whose bracket placement failed at time t *)
ErrorRow(job_id, t) ==
    [NewItem(job_id, OrderPayload(GoodRow)) EXCEPT
        !.status = "ERROR", !.entry_filled_qty = 1, !.entry_avg_price = 1]
    @@ [last_error |-> "oco", updated_at |-> t]

(* key = f"{int(row['id'])}:{row['updated_at']}" *)
ErrorKey(its, i) == <<i, its[i].updated_at>>

(* The rows the query of _notify_new_item_errors returns: in ERROR with a   *)
(* last_error, the latest NotifyLimit of them by updated_at, then id        *)
NotifyRows(its) ==
    LET errors == {i \in 1..Len(its) : its[i].status = "ERROR" /\ its[i].last_error # ""}
        Before(i, j) == \/ its[i].updated_at > its[j].updated_at
                        \/ (its[i].updated_at = its[j].updated_at /\ i > j)
    IN {i \in errors : Cardinality({j \in errors : Before(j, i)}) < NotifyLimit}

(* _notified_error_keys after _notify_new_item_errors *)
NotifiedAfter(its, keys) ==
    LET active_keys == {ErrorKey(its, i) : i \in NotifyRows(its)}
    IN (keys \cup active_keys) \cap active_keys

(* The rows _notify_new_item_errors reports: fresh_rows *)
FreshKeys(its, keys) == {ErrorKey(its, i) : i \in NotifyRows(its)} \ keys

(* One tick in which the bracket placement of at most one more item fails,  *)
(* ending with _notify_new_item_errors and its dialog, if any               *)
WorkerTickNotify ==
    /\ pc = "idle"
    /\ \E fails \in BOOLEAN :
         LET job_id == Len(jobs) + 1
             its == IF fails THEN Append(items, ErrorRow(job_id, now + 1)) ELSE items
             fresh == FreshKeys(its, notified_error_keys)
         IN /\ fails => Len(items) < MaxErrorRows
            /\ items' = its
            /\ jobs' = IF fails
                       THEN Append(jobs, [status |-> "ERROR", run_mode |-> "immediate",
                                          scheduled_at |-> NoTime, eod_force_close |-> 1])
                       ELSE jobs
            /\ now' = IF fails THEN now + 1 ELSE now
            /\ notified_error_keys' = NotifiedAfter(its, notified_error_keys)
            /\ surfaced' = IF fresh = {} THEN surfaced ELSE Append(surfaced, fresh)
            /\ toast' = IF fresh = {} THEN toast ELSE "item_errors"
    /\ UNCHANGED <<accounts, orders, broker, pc, worker_busy, event_logs, form, post,
                   status_label, api_token, broker_token, call, db_retry>>

(* manual_close_item on a row in ERROR: the row leaves ERROR, or is in      *)
(* ERROR again with another last_error and updated_at                        *)
ManualCloseErrorItem(item_id) ==
    /\ pc = "idle"
    /\ item_id \in ItemIds
    /\ items[item_id].status = "ERROR"
    /\ now - Len(items) < MaxManual
    /\ IF ManualCloseRefused(items[item_id])
       THEN UNCHANGED <<items, orders, broker, now>>
       ELSE \E res \in CloseOutcomes :
              /\ CloseOutcomeUsed(items[item_id], res)
              /\ LET out == ManualCloseOut(item_id, res)
                 IN /\ items' = [out.items EXCEPT
                                   ![item_id].updated_at = now + 1,
                                   ![item_id].last_error =
                                       IF out.items[item_id].status = "ERROR"
                                       THEN "manual_close" ELSE @]
                    /\ orders' = out.orders
                    /\ broker' = out.broker
                    /\ now' = now + 1
    /\ UNCHANGED <<accounts, jobs, pc, worker_busy, event_logs, form, toast, post,
                   notified_error_keys, surfaced, status_label,
                   api_token, broker_token, call, db_retry>>

ManualCloseError == \E item_id \in ItemIds : ManualCloseErrorItem(item_id)

(* The program is started again: __init__ starts without a token and runs  *)
(* _prime_notified_error_keys                                               *)
PrimeNotifiedErrorKeys ==
    /\ pc = "idle"
    /\ api_token' = NULL
    /\ notified_error_keys' =
          {ErrorKey(items, i) : i \in {k \in ItemIds : /\ items[k].status = "ERROR"
                                                       /\ items[k].last_error # ""}}
    /\ UNCHANGED <<accounts, jobs, items, orders, broker, now, pc, worker_busy,
                   event_logs, form, toast, post, surfaced, status_label,
                   broker_token, call, db_retry>>

NextNotify ==
    \/ WorkerTickNotify
    \/ ManualCloseError
    \/ PrimeNotifiedErrorKeys

SpecNotify == Init /\ [][NextNotify]_vars

-----------------------------------------------------------------------------
(* Hold-id reconciliation on its own: the position loop of                  *)
(* _sync_orders_step applied to two margin rows of a RUNNING job, which     *)
(* carry the column last_error, and to any snapshot of up to MaxPositions   *)
(* records.  GET /positions reports the account's positions, those opened   *)
(* outside the program included.  The rows are as an earlier snapshot that  *)
(* matched neither has left them: the filled ones with the stall error.     *)
MaxPositions == 2
MaxLeaves == 2

HoldRow(state, side, hold_id, last_error) ==
    [NewItem(1, OrderPayload([GoodRow EXCEPT !.product = "margin", !.side = side]))
        EXCEPT !.status = state[1], !.entry_order_id = state[2],
               !.entry_filled_qty = state[3], !.hold_id = hold_id]
    @@ [last_error |-> last_error]

HoldRows ==
    {HoldRow(state, side, "", IF state[3] > 0 THEN "hold" ELSE "") :
        state \in {<<"ENTRY_SENT", 1, 0>>, <<"ENTRY_PARTIAL", 1, 1>>, <<"ENTRY_FILLED", 1, 1>>},
        side \in Sides}

PositionRecords ==
    [Symbol : Symbols, Side : {"1", "2", ""}, HoldID : {"E1", "E2", "X1"},
     LeavesQty : 1..MaxLeaves]

PositionSnapshots == UNION {[1..n -> PositionRecords] : n \in 0..MaxPositions}

InitHold ==
    /\ accounts = <<TRUE>>
    /\ jobs = <<[status |-> "RUNNING", run_mode |-> "immediate",
                 scheduled_at |-> NoTime, eod_force_close |-> 1]>>
    /\ items \in [1..2 -> HoldRows]
    /\ orders = <<>>
    /\ broker = <<>>
    /\ now = 0
    /\ pc = "sync"
    /\ worker_busy = TRUE
    /\ event_logs = <<>>
    /\ form = <<>>
    /\ toast = ""
    /\ post = NoPost
    /\ notified_error_keys = {}
    /\ surfaced = <<>>
    /\ status_label = ""
    /\ api_token = NULL
    /\ broker_token = NULL
    /\ call = NoCall
    /\ db_retry = NoRetry

SyncHoldIdsWith(positions) ==
    /\ pc = "sync"
    /\ items' = SyncPositions(items, positions)
    /\ UNCHANGED <<accounts, jobs, orders, broker, now, pc, worker_busy, event_logs,
                   form, toast, post, notified_error_keys, surfaced, status_label,
                   api_token, broker_token, call, db_retry>>

SyncHoldIds == \E positions \in PositionSnapshots : SyncHoldIdsWith(positions)

NextHold == SyncHoldIds

SpecHold == InitHold /\ [][NextHold]_vars

-----------------------------------------------------------------------------
(* _run_with_db_retry(action, retries): the for loop over                   *)
(* range(retries + 1), one attempt per step.  An attempt opens a            *)
(* connection, runs the action and commits; it ends with the action's       *)
(* result, with sqlite3.OperationalError 'database is locked', with another *)
(* OperationalError, or with another exception.                             *)
MaxRetries == 5
DefaultRetries == 3

AttemptOutcomes == {"ok", "locked", "operational", "error"}
ActionResults == {"r1", "r2"}

InitRetry ==
    /\ accounts = <<TRUE>>
    /\ jobs = <<>>
    /\ items = <<>>
    /\ orders = <<>>
    /\ broker = <<>>
    /\ now = 0
    /\ pc = "idle"
    /\ worker_busy = FALSE
    /\ event_logs = <<>>
    /\ form = <<>>
    /\ toast = ""
    /\ post = NoPost
    /\ notified_error_keys = {}
    /\ surfaced = <<>>
    /\ status_label = ""
    /\ api_token = NULL
    /\ broker_token = NULL
    /\ call = NoCall
    /\ \E retries \in 0..MaxRetries :
         db_retry = [NoRetry EXCEPT !.retries = retries, !.status = "running"]

(* Variant: the last attempt is taken for one more to come *)
RetryExhaustedLate(attempt, retries) == attempt > retries

(* attempt >= retries *)
RetryExhausted(attempt, retries) == attempt >= retries

(* One pass of the loop body, or the end of the loop *)
DbRetryAttempt ==
    /\ db_retry.status = "running"
    /\ IF db_retry.attempt > db_retry.retries
       THEN db_retry' = [db_retry EXCEPT !.status = "returned", !.result = ""]
       ELSE \E outcome \in AttemptOutcomes : \E result \in ActionResults :
              LET ran == [db_retry EXCEPT !.runs = @ + 1, !.last = outcome]
              IN /\ outcome # "ok" => result = "r1"
                 /\ db_retry' =
                      IF outcome = "ok"
                      THEN [ran EXCEPT !.status = "returned", !.result = result]
                      ELSE IF outcome = "error"
                      THEN [ran EXCEPT !.status = "raised"]
                      ELSE IF outcome # "locked"
                              \/ RetryExhausted(db_retry.attempt, db_retry.retries)
                      THEN [ran EXCEPT !.status = "raised"]
                      ELSE [ran EXCEPT !.attempt = @ + 1,
                                       !.slept = @ + (db_retry.attempt + 1)]
    /\ UNCHANGED <<accounts, jobs, items, orders, broker, now, pc, worker_busy,
                   event_logs, form, toast, post, notified_error_keys, surfaced,
                   status_label, api_token, broker_token, call>>

NextRetry == DbRetryAttempt

SpecRetry == InitRetry /\ [][NextRetry]_vars

(* The loop runs on the thread that called it and waits only in time.sleep  *)
(* and in sqlite's busy_timeout, so a pass that can be made is made         *)
SpecRetryFair == SpecRetry /\ WF_vars(NextRetry)

-----------------------------------------------------------------------------
(* The API token: _get_api_token and the calls that send it as X-API-KEY.   *)
(* Tokens are numbered in the order the broker issues them; the broker      *)
(* accepts the one it issued last.  One account, one base URL.              *)

TokenOutcomes == {"issued", "failed"}

(* _get_api_token: the token it returns, the cache and the broker after it, *)
(* and whether POST /token was sent; res is the outcome of that request     *)
GetApiToken(cached, accepted, res) ==
    IF cached # NULL
    THEN [token |-> cached, api_token |-> cached, broker_token |-> accepted, asked |-> FALSE]
    ELSE IF res = "issued"
    THEN [token |-> accepted + 1, api_token |-> accepted + 1,
          broker_token |-> accepted + 1, asked |-> TRUE]
    ELSE [token |-> NULL, api_token |-> NULL, broker_token |-> accepted, asked |-> TRUE]

(* The calls that take the token and send one request with it *)
PlainCalls == {"sendorder", "cancelorder", "orders", "positions"}

(* _api_post_order, _cancel_order_if_needed, _fetch_orders_snapshot and     *)
(* _fetch_positions_snapshot, as far as the token goes: without a token no  *)
(* request is sent; a request with a token the broker does not accept is    *)
(* answered 401, which the caller gets as an HTTPError                      *)
AuthCall(op) ==
    /\ pc = "idle"
    /\ api_token = NULL => broker_token < MaxTokens
    /\ \E res \in TokenOutcomes :
         LET got == GetApiToken(api_token, broker_token, res)
         IN /\ api_token # NULL => res = "issued"
            /\ api_token' = got.api_token
            /\ broker_token' = got.broker_token
            /\ call' = [op |-> op,
                        result |-> IF got.token = NULL THEN "no_token"
                                   ELSE IF got.token # got.broker_token THEN "401"
                                   ELSE "ok",
                        requests |-> IF got.token = NULL THEN 0 ELSE 1]
    /\ UNCHANGED <<accounts, jobs, items, orders, broker, now, pc, worker_busy,
                   event_logs, form, toast, post,
                   notified_error_keys, surfaced, status_label, db_retry>>

PlainCall == \E op \in PlainCalls : AuthCall(op)

(* fetch_symbol_name, as far as the token goes: on a 401 the cached token   *)
(* is dropped, a new one is asked for and the lookup is made once more      *)
FetchSymbolName ==
    /\ pc = "idle"
    /\ broker_token < MaxTokens
    /\ \E res \in TokenOutcomes : \E retry_res \in TokenOutcomes :
         LET got == GetApiToken(api_token, broker_token, res)
             again == GetApiToken(NULL, got.broker_token, retry_res)
         IN /\ api_token # NULL => res = "issued"
            /\ (got.token = NULL \/ got.token = got.broker_token) => retry_res = "issued"
            /\ IF got.token = NULL
               THEN /\ api_token' = got.api_token
                    /\ broker_token' = got.broker_token
                    /\ call' = [op |-> "symbol", result |-> "no_token", requests |-> 0]
               ELSE IF got.token = got.broker_token
               THEN /\ api_token' = got.api_token
                    /\ broker_token' = got.broker_token
                    /\ call' = [op |-> "symbol", result |-> "ok", requests |-> 1]
               ELSE /\ api_token' = again.api_token
                    /\ broker_token' = again.broker_token
                    /\ call' = [op |-> "symbol",
                                result |-> IF again.token = NULL THEN "no_token" ELSE "ok",
                                requests |-> IF again.token = NULL THEN 1 ELSE 2]
    /\ UNCHANGED <<accounts, jobs, items, orders, broker, now, pc, worker_busy,
                   event_logs, form, toast, post,
                   notified_error_keys, surfaced, status_label, db_retry>>

(* The broker stops accepting the token it issued: it expired, or the       *)
(* broker's program was started again                                       *)
TokenExpires ==
    /\ pc = "idle"
    /\ broker_token # NULL
    /\ broker_token < MaxTokens
    /\ broker_token' = broker_token + 1
    /\ UNCHANGED <<accounts, jobs, items, orders, broker, now, pc, worker_busy,
                   event_logs, form, toast, post,
                   notified_error_keys, surfaced, status_label, api_token, call, db_retry>>

NextToken ==
    \/ PlainCall
    \/ FetchSymbolName
    \/ TokenExpires

SpecToken == Init /\ [][NextToken]_vars

-----------------------------------------------------------------------------
(* Properties of the item state machine *)

TerminalItemStatus == {"CLOSED", "ERROR", "CANCELLED"}

(* C1: once an item's status is CLOSED, ERROR or CANCELLED, no operation    *)
(* (worker step, manual close, cancel-scheduled) changes that status again. *)
C1_TerminalStatusIsFinal ==
    [][\A i \in ItemIds :
          items[i].status \in TerminalItemStatus => items'[i].status = items[i].status]_vars

EntryStatuses == {"ENTRY_PARTIAL", "ENTRY_FILLED", "ENTRY_FILLED_WAIT_PRICE"}
OpenStatuses == {"ENTRY_SENT", "BRACKET_SENT"} \cup EntryStatuses

(* The status edges the item state machine is documented to have *)
DocumentedEdge(a, b) ==
    \/ a = "READY" /\ b = "ENTRY_SENT"
    \/ a = "ENTRY_SENT" /\ b \in EntryStatuses
    \/ a \in EntryStatuses /\ b = "BRACKET_SENT"
    \/ a = "BRACKET_SENT" /\ b = "CLOSED"
    \/ a = "READY" /\ b = "CANCELLED"
    \/ a \in OpenStatuses /\ b = "EOD_MARKET_SENT"
    \/ a = "EOD_MARKET_SENT" /\ b = "CLOSED"
    \/ a \notin TerminalItemStatus /\ b = "ERROR"

(* C2: every status change of an item is a documented edge; in particular   *)
(* no step moves an item backwards (BRACKET_SENT or EOD_MARKET_SENT back to *)
(* an entry status).                                                        *)
C2_OnlyDocumentedEdges ==
    [][\A i \in ItemIds :
          items'[i].status # items[i].status
              => DocumentedEdge(items[i].status, items'[i].status)]_vars

(* The orders of a role the exchange has accepted for an item *)
OrdersOf(bk, item_id, role) ==
    {oid \in 1..Len(bk) : bk[oid].item = item_id /\ bk[oid].role = role}

(* The orders a step has just had accepted *)
NewOrders == (Len(broker) + 1)..Len(broker')

C4_OneLiveOrderPerRole ==
    [][\A oid \in NewOrders :
          broker'[oid].role \in {"entry", "tp", "sl", "eod"}
              => \A old \in OrdersOf(broker, broker'[oid].item, broker'[oid].role) :
                     ~Live(broker[old])]_vars

(* C5: in every reachable state and for every item, closed_qty is at most   *)
(* entry_filled_qty (the exchange never reports more filled than ordered).  *)
C5_ClosedWithinFilled ==
    \A i \in ItemIds : items[i].closed_qty <= items[i].entry_filled_qty

(* C5 witness: the OCO step has closed an item on a filled leg *)
C5_Witness ==
    \E i \in ItemIds : items[i].status = "CLOSED" /\ items[i].closed_qty > 0

(* C6: an item has tp_order_id recorded exactly when it has sl_order_id     *)
(* recorded, and an item in BRACKET_SENT has both.                          *)
C6_OcoPairing ==
    \A i \in ItemIds :
        /\ (items[i].tp_order_id # NULL) <=> (items[i].sl_order_id # NULL)
        /\ items[i].status = "BRACKET_SENT"
              => items[i].tp_order_id # NULL /\ items[i].sl_order_id # NULL

(* C6 witness: the OCO step has sent a bracket and recorded both ids *)
C6_Witness ==
    \E i \in ItemIds :
        /\ items[i].status = "BRACKET_SENT"
        /\ items[i].tp_order_id \in OrdersOf(broker, i, "tp")
        /\ items[i].sl_order_id \in OrdersOf(broker, i, "sl")

(* The direction rule: buy tp > avg > sl, sell tp < avg < sl, both positive *)
DirectionHolds(side, avg, tp_abs, sl_abs) ==
    /\ tp_abs > 0 /\ sl_abs > 0
    /\ \/ side = "buy" /\ tp_abs > avg /\ avg > sl_abs
       \/ side = "sell" /\ tp_abs < avg /\ avg < sl_abs

(* TP and SL orders a step has just had accepted for an item *)
BracketSent(i) == (OrdersOf(broker', i, "tp") \cup OrdersOf(broker', i, "sl")) \cap NewOrders

(* TRUE when the OCO step gets as far as validating the item's prices *)
OcoValidates(i) ==
    /\ pc = "oco" /\ GetActiveApiAccount # NULL /\ i \in OcoRows
    /\ ~(items[i].product = "margin" /\ items[i].hold_id = "")
    /\ Remaining(items[i]) > 0
    /\ OcoAvg(items[i]) > 0

(* C7: TP/SL orders are sent only by the OCO step and only when the prices  *)
(* tp_abs = avg + tp offset, sl_abs = avg + sl offset satisfy the direction *)
(* rule; an item validated with any other combination goes to ERROR and no  *)
(* TP or SL order is sent for it.                                           *)
C7_DirectionValidation ==
    [][\A i \in ItemIds :
          LET avg == OcoAvg(items[i])
              valid == DirectionHolds(items[i].side, avg, avg + items[i].tp_price,
                                      avg + items[i].sl_trigger_price)
          IN /\ BracketSent(i) # {} => OcoValidates(i) /\ valid
             /\ (OcoValidates(i) /\ ~valid)
                    => items'[i].status = "ERROR" /\ BracketSent(i) = {}]_vars

(* C7 witness: the OCO step has just refused an item whose stop price would *)
(* not be positive: ERROR, and no TP or SL order at the exchange            *)
C7_Witness ==
    /\ pc = "eod"
    /\ \E i \in ItemIds :
          /\ items[i].status = "ERROR"
          /\ items[i].entry_avg_price # NULL
          /\ Remaining(items[i]) > 0
          /\ ~DirectionHolds(items[i].side, items[i].entry_avg_price,
                             items[i].entry_avg_price + items[i].tp_price,
                             items[i].entry_avg_price + items[i].sl_trigger_price)
          /\ OrdersOf(broker, i, "tp") \cup OrdersOf(broker, i, "sl") = {}

(* A hold id as the exchange issues it *)
HoldIdResolved(hold_id) == Len(hold_id) > 0 /\ SubSeq(hold_id, 1, 1) = "E"

(* A margin item whose hold id is empty or not well-formed *)
Gated(i) == items[i].product = "margin" /\ ~HoldIdResolved(items[i].hold_id)

(* Exit orders a step has just had accepted for an item *)
ExitSent(i) == {oid \in NewOrders : broker'[oid].item = i /\ broker'[oid].role # "entry"}

(* C8 as claimed: no exit order is sent for a margin item without a valid   *)
(* hold id, and the OCO step, the EOD step and manual close leave such an   *)
(* item's status unchanged.                                                 *)
C8_HoldIdGateAsClaimed ==
    [][\A i \in ItemIds :
          Gated(i)
            => /\ ExitSent(i) = {}
               /\ (pc \in {"oco", "eod"} \/ ManualCloseItem(i))
                      => items'[i].status = items[i].status]_vars

(* C8: no exit order is sent for a margin item without a valid hold id; the *)
(* OCO step and manual close leave such an item's status unchanged, and so  *)
(* does the EOD step unless the item has nothing left to close: an item the *)
(* EOD step handles with no remaining quantity is set to CLOSED before the  *)
(* hold id is looked at.                                                    *)
C8_HoldIdGate ==
    [][\A i \in ItemIds :
          Gated(i)
            => /\ ExitSent(i) = {}
               /\ (pc = "oco" \/ ManualCloseItem(i))
                      => items'[i].status = items[i].status
               /\ pc = "eod"
                      => items'[i].status =
                            IF /\ now >= EodCutoff /\ GetActiveApiAccount # NULL
                               /\ i \in EodRows /\ Remaining(items[i]) <= 0
                            THEN "CLOSED" ELSE items[i].status]_vars

(* C8 witness: after the cutoff the EOD step has passed over a margin item  *)
(* with shares left and no hold id: still open, nothing sent for it         *)
C8_Witness ==
    /\ pc = "finalize" /\ now >= EodCutoff
    /\ \E i \in ItemIds :
          /\ Gated(i) /\ i \in EodRows /\ Remaining(items[i]) > 0
          /\ \A oid \in 1..Len(broker) : broker[oid].item = i => broker[oid].role = "entry"

-----------------------------------------------------------------------------
(* Properties of job finalization *)

ItemsOf(j) == {i \in ItemIds : items[i].batch_job_id = j}

(* C9: at the finalize step a RUNNING job whose items are all CLOSED        *)
(* becomes DONE, a RUNNING job with at least one item in ERROR becomes      *)
(* ERROR whatever its other items are, and a RUNNING job in neither         *)
(* situation stays RUNNING.                                                 *)
C9_JobFinalization ==
    [][pc = "finalize"
         => \A j \in JobIds :
               jobs[j].status = "RUNNING"
                 => jobs'[j].status =
                       IF \A i \in ItemsOf(j) : items[i].status = "CLOSED" THEN "DONE"
                       ELSE IF \E i \in ItemsOf(j) : items[i].status = "ERROR" THEN "ERROR"
                       ELSE "RUNNING"]_vars

(* C9 witness: a job finalized to ERROR with one item in ERROR and another  *)
(* item CLOSED                                                              *)
C9_Witness ==
    /\ pc = "idle"
    /\ \E j \in JobIds :
          /\ jobs[j].status = "ERROR"
          /\ \E i \in ItemsOf(j) : items[i].status = "ERROR"
          /\ \E i \in ItemsOf(j) : items[i].status = "CLOSED"

(* C10: a job whose status is DONE has at least one item, and every one of  *)
(* its items is CLOSED.                                                     *)
C10_DoneMeansAllClosed ==
    \A j \in JobIds :
        jobs[j].status = "DONE"
          => ItemsOf(j) # {} /\ \A i \in ItemsOf(j) : items[i].status = "CLOSED"

(* C10 witness: a DONE job of two items, reached again by a later tick's    *)
(* sync step                                                                *)
C10_Witness ==
    /\ pc = "oco"
    /\ \E j \in JobIds : jobs[j].status = "DONE" /\ Cardinality(ItemsOf(j)) = 2

-----------------------------------------------------------------------------
(* C11: once a job is DONE or ERROR, no worker step and no user intent      *)
(* (submit, cancel of a scheduled item, manual close) changes its status    *)
C11_JobStatusSticky ==
    [][\A j \in JobIds :
          jobs[j].status \in {"DONE", "ERROR"}
          => (j \in 1..Len(jobs') /\ jobs'[j].status = jobs[j].status)]_vars

(* a later batch is RUNNING beside a finished one *)
C11_Witness ==
    \E j \in JobIds : \E k \in JobIds :
        /\ jobs[j].status \in {"DONE", "ERROR"}
        /\ jobs[k].status = "RUNNING"

-----------------------------------------------------------------------------
(* C12: the sync step gives an item a position's hold id only when no other *)
(* unresolved margin item of the same symbol and side has the same          *)
(* outstanding quantity; two such items are both left without a hold id     *)
HoldIdAssigned(i) == items[i].hold_id = "" /\ items'[i].hold_id # ""

HoldIdRival(i, j) ==
    /\ j # i
    /\ items[j].hold_id = ""
    /\ (j > i \/ items'[j].hold_id = "")
    /\ items'[j].product = "margin"
    /\ items'[j].symbol = items'[i].symbol
    /\ items'[j].side = items'[i].side
    /\ items'[j].status \in {"ENTRY_FILLED", "ENTRY_PARTIAL", "BRACKET_SENT"}
    /\ jobs[items'[j].batch_job_id].status = "RUNNING"
    /\ Remaining(items'[j]) = Remaining(items'[i])

C12_ExactUniqueMatch ==
    [][\A i \in ItemIds : HoldIdAssigned(i) => ~ \E j \in ItemIds : HoldIdRival(i, j)]_vars

-----------------------------------------------------------------------------
(* C13: a tick leaves a scheduled job SCHEDULED while scheduled_at is later *)
(* than the clock and makes it RUNNING in the first tick that reads         *)
(* scheduled_at <= now; an immediate job becomes RUNNING in the first tick  *)
(* after its submission; nothing but the scheduler step of a tick moves a   *)
(* job from SCHEDULED to RUNNING                                            *)
SchedulerTick == pc = "idle" /\ pc' = "execution"

DueAt(job, t) ==
    \/ job.run_mode = "immediate"
    \/ (job.run_mode = "scheduled" /\ job.scheduled_at # NoTime /\ job.scheduled_at <= t)

C13_SchedulerPromotion ==
    [][\A j \in JobIds :
          jobs[j].status = "SCHEDULED"
          => /\ SchedulerTick /\ DueAt(jobs[j], now) => jobs'[j].status = "RUNNING"
             /\ SchedulerTick /\ ~DueAt(jobs[j], now) => jobs'[j].status = "SCHEDULED"
             /\ pc # "idle" => jobs'[j].status = "SCHEDULED"
             /\ jobs'[j].status = "RUNNING" => SchedulerTick]_vars

(* a scheduled job that waited for its time is RUNNING *)
C13_Witness ==
    \E j \in JobIds :
        /\ jobs[j].run_mode = "scheduled"
        /\ jobs[j].status = "RUNNING"
        /\ jobs[j].scheduled_at <= now
        /\ jobs[j].scheduled_at > 0

-----------------------------------------------------------------------------
(* C14: a placement rejected with code 4001005 is sent again to the         *)
(* fallback exchanges in the order fixed by the requested code (1: 9, 27;   *)
(* 9: 27, 1; 27: 9, 1; other: 1, 9, 27), stops at the first accepted        *)
(* attempt, whose exchange is returned as resolved, and raises only after   *)
(* the last fallback is rejected; any other rejection is raised at once     *)
FallbackOrder(exchange) ==
    CASE exchange = 1 -> <<9, 27>>
      [] exchange = 9 -> <<27, 1>>
      [] exchange = 27 -> <<9, 1>>
      [] OTHER -> <<1, 9, 27>>

AttemptPlan(exchange) == <<exchange>> \o FallbackOrder(exchange)

C14_ExchangeFallback ==
    post.result \in {"ok", "retrying", "raised"} =>
        LET plan == AttemptPlan(post.exchange)
            n == Len(post.sent)
        IN /\ n >= 1 /\ n <= Len(plan)
           /\ \A k \in 1..n : post.sent[k] = plan[k]
           /\ \A k \in 1..(n - 1) : post.answers[post.sent[k]] # "accepted"
           /\ post.answers[post.exchange] # "4001005" => n = 1
           /\ post.result = "ok" <=> post.answers[post.sent[n]] = "accepted"
           /\ post.result = "ok" => post.resolved = post.sent[n]
           /\ post.result = "raised" =>
                 \/ (n = 1 /\ post.answers[post.exchange] = "rejected")
                 \/ n = Len(plan)
           /\ post.result = "retrying" => n < Len(plan)

(* requested on exchange 1, refused there and on 9, accepted on 27 *)
C14_Witness ==
    /\ post.exchange = 1
    /\ post.result = "ok"
    /\ post.sent = <<1, 9, 27>>
    /\ post.resolved = 27

-----------------------------------------------------------------------------
(* C15: the stored offsets are signed by side (buy: +tp, -sl; sell: -tp,    *)
(* +sl); an item the OCO step moves to BRACKET_SENT has just had sent a TP  *)
(* limit order at avg + tp offset and an SL stop order with trigger         *)
(* avg + sl offset, avg its average fill price, each for the quantity       *)
(* filled minus closed                                                      *)
OffsetsSigned(it) ==
    /\ it.side = "buy" => it.tp_price > 0 /\ it.sl_trigger_price < 0
    /\ it.side = "sell" => it.tp_price < 0 /\ it.sl_trigger_price > 0

BracketPriced(i) ==
    LET it == items[i]
        avg == it.entry_avg_price
        tp_id == items'[i].tp_order_id
        sl_id == items'[i].sl_order_id
    IN /\ it.status \in {"ENTRY_FILLED", "ENTRY_FILLED_WAIT_PRICE"}
       /\ avg > 0
       /\ {tp_id, sl_id} \subseteq NewOrders
       /\ broker'[tp_id].item = i /\ broker'[tp_id].role = "tp"
       /\ broker'[tp_id].sent_price = avg + it.tp_price
       /\ broker'[tp_id].trigger = 0
       /\ broker'[tp_id].qty = it.entry_filled_qty - it.closed_qty
       /\ broker'[sl_id].item = i /\ broker'[sl_id].role = "sl"
       /\ broker'[sl_id].trigger = avg + it.sl_trigger_price
       /\ broker'[sl_id].sent_price = 0
       /\ broker'[sl_id].qty = it.entry_filled_qty - it.closed_qty

-----------------------------------------------------------------------------
(* C16: an accepted submit adds exactly one job in SCHEDULED, one READY     *)
(* item per leg and one BATCH_CREATED event, all of them or none; the rows  *)
(* already stored are left as they are, and the new items belong to the new *)
(* job only, so the same legs submitted twice are two jobs with disjoint    *)
(* items                                                                    *)
Kept(old, new) == Len(new) >= Len(old) /\ SubSeq(new, 1, Len(old)) = old

BatchAdded ==
    LET job_id == Len(jobs) + 1
        new_items == (Len(items) + 1)..Len(items')
    IN /\ Len(jobs') = job_id
       /\ jobs'[job_id].status = "SCHEDULED"
       /\ Len(items') = Len(items) + Len(form')
       /\ \A i \in new_items : /\ items'[i].status = "READY"
                                /\ items'[i].batch_job_id = job_id
       /\ \A k \in 1..Len(form') : items'[Len(items) + k].symbol = form'[k].symbol
       /\ Len(event_logs') = Len(event_logs) + 1
       /\ event_logs'[Len(event_logs')] =
              [batch_job_id |-> job_id, event_type |-> "BATCH_CREATED"]

C16_AtomicIndependentBatches ==
    [][/\ Kept(jobs, jobs') /\ Kept(items, items') /\ Kept(event_logs, event_logs')
       /\ \/ BatchAdded
          \/ UNCHANGED <<jobs, items, event_logs>>
       /\ toast' = "saved" /\ toast # "saved" => BatchAdded]_vars

(* the same two legs submitted twice: two jobs, two events, and two items   *)
(* each of its own job                                                      *)
C16_Witness ==
    /\ Len(jobs) = 2 /\ Len(items) = 4 /\ Len(event_logs) = 2
    /\ \A k \in 1..2 : /\ items[k].batch_job_id = 1
                        /\ items[k + 2].batch_job_id = 2
                        /\ items[k + 2].symbol = items[k].symbol
                        /\ items[k + 2].entry_type = items[k].entry_type

-----------------------------------------------------------------------------
(* C17: a submit whose legs fail validation (empty symbol, quantity < 1,    *)
(* limit price < 1 for a limit entry, take-profit or stop-loss offset < 1), *)
(* or that has no legs, or no active account, creates no job, no item and   *)
(* no event and sends no broker request                                     *)
LegRejected(row) ==
    \/ row.symbol = ""
    \/ row.qty < 1
    \/ (row.entry_type = "limit" /\ row.limit_price < 1)
    \/ row.tp_diff < 1
    \/ row.sl_diff < 1

FormRejected(rows) ==
    \/ rows = <<>>
    \/ \E k \in 1..Len(rows) : LegRejected(rows[k])
    \/ \A a \in 1..Len(accounts) : ~accounts[a]

C17_RejectedSubmitMutatesNothing ==
    [][FormRejected(form') => UNCHANGED <<accounts, jobs, items, event_logs, orders, broker>>]_vars

(* a form with a quantity of 0 among its legs has been refused after a      *)
(* batch was stored: the store holds that batch and nothing else            *)
C17_Witness ==
    /\ toast = "input_error"
    /\ \E k \in 1..Len(form) : form[k].qty < 1
    /\ Len(jobs) = 1 /\ Len(event_logs) = 1
    /\ Len(items) \in 1..MaxFormRows

-----------------------------------------------------------------------------
(* C18: a timer tick that comes while a tick is in progress, as during the  *)
(* error dialog of that tick, runs no pipeline step and leaves the store    *)
(* and the exchange alone; the busy flag is set exactly while a tick is in  *)
(* progress, so it is clear again after every tick, a tick in which a step  *)
(* raised included                                                          *)
C18_ReentrancyGuard ==
    /\ [](worker_busy <=> pc # "idle")
    /\ [][pc = "notify" =>
            /\ pc' \in {"notify", "idle"}
            /\ UNCHANGED <<accounts, jobs, items, orders, broker, event_logs>>]_vars

(* the dialog of a tick is open: the flag is set and the timer goes on      *)
(* firing                                                                   *)
C18_Witness ==
    /\ pc = "notify"
    /\ worker_busy
    /\ \E i \in ItemIds : items[i].status = "ERROR"

-----------------------------------------------------------------------------
(* C19: in a tick at or after the cutoff the EOD step sends, for every item *)
(* still open (ENTRY_PARTIAL, ENTRY_FILLED, BRACKET_SENT) in a force-close  *)
(* job, one market-close order for entry_filled_qty - closed_qty and moves  *)
(* the item to EOD_MARKET_SENT; before the cutoff it sends no order and     *)
(* changes no item.  The claim is read with the exceptions the              *)
(* specification names itself: an item with nothing left is CLOSED without  *)
(* an order, a margin item without hold id is left waiting, and an item     *)
(* whose cancel or close request fails goes to ERROR.                       *)
StillOpen(i) ==
    /\ items[i].status \in {"ENTRY_PARTIAL", "ENTRY_FILLED", "BRACKET_SENT"}
    /\ jobs[items[i].batch_job_id].eod_force_close = 1

EodOrders(i) == OrdersOf(broker', i, "eod") \cap NewOrders

ForceClosed(i) ==
    \/ /\ Remaining(items[i]) <= 0
       /\ items'[i].status = "CLOSED"
       /\ EodOrders(i) = {}
    \/ /\ Remaining(items[i]) > 0
       /\ items[i].product = "margin" /\ items[i].hold_id = ""
       /\ items'[i].status = items[i].status
       /\ EodOrders(i) = {}
    \/ /\ Remaining(items[i]) > 0
       /\ items'[i].status = "ERROR"
       /\ EodOrders(i) = {}
    \/ /\ Remaining(items[i]) > 0
       /\ items'[i].status = "EOD_MARKET_SENT"
       /\ EodOrders(i) = {items'[i].eod_order_id}
       /\ broker'[items'[i].eod_order_id].qty = Remaining(items[i])

C19_EodForceClose ==
    [][pc = "eod" =>
         IF now < EodCutoff
         THEN UNCHANGED <<items, orders, broker>>
         ELSE \A i \in ItemIds : StillOpen(i) => ForceClosed(i)]_vars

-----------------------------------------------------------------------------
(* C20: when the sync step of a tick has read the TP order of an item with  *)
(* a bracket as FILLED, the OCO step of that tick closes the item with      *)
(* closed_qty the TP order's filled quantity, and likewise for the SL       *)
(* order, whether or not the entry order is still listed as FILLED (the     *)
(* sync step then shows the item as ENTRY_FILLED); a tick that a failed     *)
(* cancel ends early is excepted                                            *)
HasBracket(i) ==
    /\ jobs[items[i].batch_job_id].status = "RUNNING"
    /\ items[i].status \in {"BRACKET_SENT", "ENTRY_FILLED"}
    /\ items[i].tp_order_id # NULL
    /\ items[i].sl_order_id # NULL

BracketLegFilled(i) ==
    IF OrderStatus(orders, items[i].tp_order_id) = "FILLED"
    THEN OrderCum(orders, items[i].tp_order_id)
    ELSE IF OrderStatus(orders, items[i].sl_order_id) = "FILLED"
    THEN OrderCum(orders, items[i].sl_order_id)
    ELSE 0 - 1

C20_BracketCompletion ==
    [][(pc = "oco" /\ pc' = "eod")
         => \A i \in ItemIds :
              (HasBracket(i) /\ BracketLegFilled(i) >= 0)
                 => /\ items'[i].status = "CLOSED"
                    /\ items'[i].closed_qty = BracketLegFilled(i)]_vars

-----------------------------------------------------------------------------
(* C21: cancel_scheduled_item changes the store only for a READY item of a  *)
(* SCHEDULED job whose run mode is scheduled: that item becomes CANCELLED,   *)
(* no other item changes, and the job becomes CANCELLED exactly when none of *)
(* its items is READY any more; in every other case it changes no item and   *)
(* no job.  No other step cancels an item or a job.                          *)
Cancellable(i) ==
    /\ jobs[items[i].batch_job_id].run_mode = "scheduled"
    /\ jobs[items[i].batch_job_id].status = "SCHEDULED"
    /\ items[i].status = "READY"

CancelledAlone(i) ==
    LET j == items[i].batch_job_id
    IN /\ items' = [items EXCEPT ![i].status = "CANCELLED"]
       /\ \A k \in JobIds : k # j => jobs'[k] = jobs[k]
       /\ jobs'[j].status = "CANCELLED"
             <=> ~ \E m \in ItemIds : items'[m].batch_job_id = j /\ items'[m].status = "READY"
       /\ jobs'[j].status \in {"CANCELLED", "SCHEDULED"}

C21_CancelScheduledGuard ==
    [][/\ \A i \in ItemIds :
             CancelScheduledItem(i)
               => IF Cancellable(i) THEN CancelledAlone(i) ELSE UNCHANGED <<jobs, items>>
       /\ \A i \in ItemIds :
             (items[i].status # "CANCELLED" /\ items'[i].status = "CANCELLED")
               => Cancellable(i) /\ CancelledAlone(i)
       /\ \A j \in JobIds :
             (jobs[j].status # "CANCELLED" /\ jobs'[j].status = "CANCELLED")
               => \E i \in ItemIds : /\ items[i].batch_job_id = j
                                      /\ items[i].status = "READY"
                                      /\ items'[i].status = "CANCELLED"]_vars

(* one item of a reserved batch of two is cancelled, the other still READY:  *)
(* the job is still SCHEDULED                                                *)
C21_Witness ==
    \E j \in JobIds :
        /\ jobs[j].status = "SCHEDULED" /\ jobs[j].run_mode = "scheduled"
        /\ \E i \in ItemsOf(j) : items[i].status = "CANCELLED"
        /\ \E i \in ItemsOf(j) : items[i].status = "READY"

-----------------------------------------------------------------------------
(* C22: once an account has been saved, exactly one stored account is       *)
(* active, whatever accounts were saved after it and whether their "active" *)
(* box was checked or not                                                    *)
ActiveAccounts == {a \in 1..Len(accounts) : accounts[a]}

C22_OneActiveAccount ==
    accounts # <<>> => Cardinality(ActiveAccounts) = 1

-----------------------------------------------------------------------------
(* C23: a row in ERROR, identified by its id and updated_at, is reported in *)
(* at most one dialog for as long as it is unchanged, however many rows are *)
(* in ERROR; a row whose error is new or whose updated_at has changed, and  *)
(* which the program did not find in ERROR when it was started, is reported *)
(* by the tick that follows                                                  *)
DialogsWith(key) == {n \in 1..Len(surfaced) : key \in surfaced[n]}

SurfacedKeys == UNION {surfaced[n] : n \in 1..Len(surfaced)}

C23_ErrorSurfacedOnce ==
    /\ [](\A key \in SurfacedKeys : Cardinality(DialogsWith(key)) <= 1)
    /\ [][WorkerTickNotify
            => \A i \in 1..Len(items') :
                 (/\ items'[i].status = "ERROR"
                  /\ ErrorKey(items', i) \notin SurfacedKeys
                  /\ ErrorKey(items', i) \notin notified_error_keys)
                    => /\ Len(surfaced') = Len(surfaced) + 1
                       /\ ErrorKey(items', i) \in surfaced'[Len(surfaced')]]_vars

-----------------------------------------------------------------------------
(* The order of the steps of a tick *)
PipelineEdge(a, b) ==
    \/ a = "idle" /\ b = "execution"
    \/ a = "execution" /\ b = "sync"
    \/ a = "sync" /\ b = "oco"
    \/ a = "oco" /\ b = "eod"
    \/ a = "eod" /\ b = "finalize"
    \/ a = "finalize" /\ b = "idle"

(* The READY items of RUNNING jobs *)
ReadyToSend == {i \in ItemIds : jobs[items[i].batch_job_id].status = "RUNNING"
                                /\ items[i].status = "READY"}

(* The execution step that follows the scheduler step sends every READY    *)
(* item of a RUNNING job: each is ENTRY_SENT or ERROR after it              *)
PromotedItemsSent ==
    (pc = "execution" /\ GetActiveApiAccount # NULL)
       => \A i \in ReadyToSend : items'[i].status \in {"ENTRY_SENT", "ERROR"}

(* No job with an item in ERROR is RUNNING *)
ErrorsFinalized(jbs, its) ==
    \A i \in 1..Len(its) : its[i].status = "ERROR" => jbs[its[i].batch_job_id].status # "RUNNING"

(* C24 as claimed: a tick runs scheduler, execution, sync, OCO, EOD and     *)
(* finalize in this order, each at most once; the READY items of a job the  *)
(* scheduler promoted are sent by the execution step of the same tick; and  *)
(* no tick ends with an item in ERROR in a job that is still RUNNING        *)
C24_PipelineOrderAsClaimed ==
    [][/\ pc' # pc => PipelineEdge(pc, pc') \/ pc' = "idle"
       /\ pc # "idle" => pc' # pc
       /\ PromotedItemsSent
       /\ (pc # "idle" /\ pc' = "idle") => ErrorsFinalized(jobs', items')]_vars

(* C24: a tick runs scheduler, execution, sync, OCO, EOD and finalize in    *)
(* this order, each at most once, and all of them unless a cancel request   *)
(* refused in the OCO step ends the tick there; the READY items of a job    *)
(* the scheduler promoted are sent by the execution step of the same tick;  *)
(* a tick that reaches its finalize step ends with no item in ERROR in a    *)
(* job that is still RUNNING, and a tick ended in the OCO step changes no   *)
(* job                                                                       *)
C24_PipelineOrder ==
    [][/\ pc' # pc => \/ PipelineEdge(pc, pc')
                      \/ /\ pc = "oco" /\ pc' = "idle"
                         /\ OcoCloseRows(items, orders) # {}
                         /\ jobs' = jobs
       /\ pc # "idle" => pc' # pc
       /\ PromotedItemsSent
       /\ (pc = "finalize" /\ pc' = "idle") => ErrorsFinalized(jobs', items')]_vars

(* a tick has ended with its finalize step: one item is in ERROR, the other *)
(* has its entry order out, and the job is ERROR                             *)
C24_Witness ==
    /\ pc = "idle"
    /\ \E j \in JobIds :
          /\ jobs[j].status = "ERROR"
          /\ \E i \in ItemsOf(j) : items[i].status = "ERROR" /\ items[i].entry_order_id = NULL
          /\ \E i \in ItemsOf(j) : items[i].status = "ENTRY_SENT"

-----------------------------------------------------------------------------
(* C25: an exception in a step of a tick (a cancel request refused in the   *)
(* OCO step) ends that tick with the error written to the status label and  *)
(* the busy flag cleared; after it the next tick starts as after any other  *)
(* tick, and each of its steps can run: the scheduler step once the worker  *)
(* is idle, then execution, sync, OCO through to its end, EOD and finalize  *)
TickRaised == pc \notin {"idle", "finalize"} /\ pc' = "idle"

C25_TickResilience ==
    /\ [](pc = "idle" => ~worker_busy /\ ENABLED SchedulerStep)
    /\ [](status_label = "worker_error" =>
            /\ pc = "execution" => ENABLED ExecutionStep
            /\ pc = "sync" => ENABLED SyncOrdersStep
            /\ pc = "oco" => ENABLED (OcoStep /\ pc' = "eod")
            /\ pc = "eod" => ENABLED EodStep
            /\ pc = "finalize" => ENABLED FinalizeJobsStep)
    /\ [][TickRaised => status_label' = "worker_error" /\ ~worker_busy']_vars

(* after a tick that a refused cancel ended, a later tick has run through   *)
(* to its finalize step                                                      *)
C25_Witness ==
    /\ pc = "finalize"
    /\ status_label = "worker_error"

-----------------------------------------------------------------------------
(* C26: a sync step whose order snapshot could not be fetched (the call     *)
(* raised, or there was no token and the list is empty) changes no order    *)
(* row and no item; no sync step moves an item to CLOSED or ERROR; a sync   *)
(* step whose position snapshot alone could not be fetched stores the       *)
(* orders it was given and sets no hold id                                  *)
HeldOrders ==
    UNION {{items[i].entry_order_id, items[i].tp_order_id,
            items[i].sl_order_id, items[i].eod_order_id} : i \in SyncRows}

OrdersStored(by_id) ==
    \A oid \in DOMAIN orders :
        IF oid \in by_id /\ oid \in HeldOrders
        THEN /\ orders'[oid].status = OrderStatusFromApi(broker'[oid].state)
             /\ orders'[oid].cum_qty = broker'[oid].cum
        ELSE orders'[oid] = orders[oid]

C26_SyncDegrades ==
    [][/\ \A orders_res \in {"no_token", "error"} :
             SyncOrdersWith(orders_res, {}, broker, "E")
                => UNCHANGED <<orders, items, jobs>>
       /\ pc = "sync"
             => \A i \in ItemIds :
                   items'[i].status \in {"CLOSED", "ERROR"}
                      => items'[i].status = items[i].status
       /\ pc = "sync"
             => \A by_id \in OrderListings("ok") :
                   SyncOrdersWith("ok", by_id, broker', "error")
                      => /\ OrdersStored(by_id)
                         /\ \A i \in ItemIds : items'[i].hold_id = items[i].hold_id]_vars

(* a margin item whose entry order has been read FILLED while its position  *)
(* was not: the order row is FILLED, the item ENTRY_FILLED without hold id  *)
C26_Witness ==
    /\ pc = "oco"
    /\ \E i \in ItemIds :
          /\ items[i].product = "margin"
          /\ items[i].status = "ENTRY_FILLED"
          /\ items[i].hold_id = ""
          /\ OrderStatus(orders, items[i].entry_order_id) = "FILLED"

(* C27: in every sync step that lists the orders by_id, each item of a       *)
(* RUNNING job whose entry order is listed leaves the step with the status   *)
(* its entry order gives, whatever its status was: State 5 with a positive   *)
(* Price ENTRY_FILLED, State 5 without one ENTRY_FILLED_WAIT_PRICE, State 3  *)
(* or 4 ENTRY_PARTIAL, any other State ENTRY_SENT; and with the order's      *)
(* CumQty as entry_filled_qty.                                               *)
EntryStatusOf(o) ==
    CASE o.state = 5 /\ o.price > 0 -> "ENTRY_FILLED"
      [] o.state = 5 /\ o.price <= 0 -> "ENTRY_FILLED_WAIT_PRICE"
      [] o.state \in {3, 4} -> "ENTRY_PARTIAL"
      [] OTHER -> "ENTRY_SENT"

C27_SyncStatusDerivation ==
    [][pc = "sync"
          => \A by_id \in OrderListings("ok") :
             \A pos_res \in PositionOutcomes(broker') :
                SyncOrdersWith("ok", by_id, broker', pos_res)
                   => \A i \in SyncRows :
                         (items[i].entry_order_id # NULL
                          /\ items[i].entry_order_id \in by_id)
                            => LET o == broker'[items[i].entry_order_id]
                               IN /\ items'[i].status = EntryStatusOf(o)
                                  /\ items'[i].entry_filled_qty = o.cum]_vars

C27_Witness ==
    /\ pc = "oco"
    /\ \E i \in ItemIds :
          /\ items[i].status = "ENTRY_FILLED_WAIT_PRICE"
          /\ items[i].entry_avg_price = NULL
          /\ items[i].entry_filled_qty > 0
          /\ OrderStatus(orders, items[i].entry_order_id) = "FILLED"

(* C28: every TP or SL order the OCO step sends belongs to an item that has  *)
(* an average fill price (entry_avg_price set, status not                    *)
(* ENTRY_FILLED_WAIT_PRICE), and its price is that average plus the item's   *)
(* signed offset: the limit price of the TP order entry_avg_price +          *)
(* tp_price, the trigger of the SL order entry_avg_price + sl_trigger_price. *)
BracketsSent == {oid \in (Len(broker) + 1)..Len(broker') : broker'[oid].role \in {"tp", "sl"}}

C28_BracketsNeedFillPrice ==
    [][pc = "oco"
          => \A oid \in BracketsSent :
                LET o == broker'[oid]
                    it == items[o.item]
                IN /\ it.entry_avg_price # NULL
                   /\ it.status # "ENTRY_FILLED_WAIT_PRICE"
                   /\ o.role = "tp" => o.sent_price = it.entry_avg_price + it.tp_price
                   /\ o.role = "sl" => o.trigger = it.entry_avg_price + it.sl_trigger_price]_vars

(* C29: when the OCO step has a TP order accepted for an item and leaves the *)
(* item in ERROR, the item records neither tp_order_id nor sl_order_id, and  *)
(* every order the step entered for it that is live in the broker's book     *)
(* has its counterpart live there as well.                                   *)
SentFor(i) == {oid \in (Len(broker) + 1)..Len(broker') : broker'[oid].item = i}

C29_NoDanglingBracket ==
    [][pc = "oco"
          => \A i \in OcoRows :
                (/\ items'[i].status = "ERROR"
                 /\ \E oid \in SentFor(i) : broker'[oid].role = "tp")
                   => /\ items'[i].tp_order_id = NULL
                      /\ items'[i].sl_order_id = NULL
                      /\ \A oid \in SentFor(i) :
                            Live(broker'[oid])
                               => \E other \in SentFor(i) :
                                     /\ broker'[other].role # broker'[oid].role
                                     /\ Live(broker'[other])]_vars

(* C30: in an EOD step at or after the cutoff, every open item of a RUNNING  *)
(* force-close job whose remaining quantity is zero leaves the step CLOSED,  *)
(* and the step enters no order for it in the broker's book.                 *)
EodRuns == pc = "eod" /\ now >= EodCutoff /\ GetActiveApiAccount # NULL

NothingLeft == {i \in EodRows : Remaining(items[i]) = 0}

OtherLeg(i) ==
    IF OrderStatus(orders, items[i].tp_order_id) = "FILLED"
    THEN items[i].sl_order_id ELSE items[i].tp_order_id

C31_CancelBestEffort ==
    [][(pc = "oco" /\ GetActiveApiAccount # NULL)
          => \A res \in [OcoRows -> BracketOutcomes] :
             \A cres \in [OcoCloseRows(items, orders) -> CancelOutcomes] :
                OcoStepWith(res, cres)
                   => /\ (\A i \in DOMAIN cres :
                             /\ cres[i] # "lost"
                             /\ cres[i] = "http_error" => ~Live(broker[OtherLeg(i)]))
                         => /\ pc' = "eod"
                            /\ \A i \in DOMAIN cres : items'[i].status = "CLOSED"
                      /\ (\E i \in DOMAIN cres : cres[i] = "lost")
                         => /\ pc' = "idle"
                            /\ status_label' = "worker_error"]_vars

(* C32: a token is asked for only when none is cached, and a call made with  *)
(* a cached token the broker no longer accepts does not leave that token in  *)
(* the cache: the token is dropped and replaced, and the call does not end   *)
(* with the 401.                                                             *)
StaleToken == api_token # NULL /\ api_token # broker_token

C32_TokenLifecycle ==
    [][(PlainCall \/ FetchSymbolName)
          => /\ (api_token # NULL /\ ~StaleToken) => UNCHANGED <<api_token, broker_token>>
             /\ StaleToken => /\ api_token' # api_token
                              /\ call'.result # "401"]_vars

(* C33, for the user intents (submit, cancel of a reserved item, manual      *)
(* close): rows of event_logs are only ever appended, and every intent that  *)
(* changes the status of a job or of an item, or inserts one, appends at     *)
(* least one row for the job concerned.                                      *)
StatusChanged(j) ==
    \/ j \notin JobIds
    \/ jobs'[j].status # jobs[j].status
    \/ \E i \in 1..Len(items') :
          /\ items'[i].batch_job_id = j
          /\ (i \in ItemIds => items'[i].status # items[i].status)

C33_TransitionsLogged ==
    /\ [][/\ Len(event_logs') >= Len(event_logs)
          /\ SubSeq(event_logs', 1, Len(event_logs)) = event_logs]_vars
    /\ [][(pc = "idle" /\ pc' = "idle")
             => \A j \in 1..Len(jobs') :
                   StatusChanged(j)
                      => \E k \in (Len(event_logs) + 1)..Len(event_logs') :
                            event_logs'[k].batch_job_id = j]_vars

-----------------------------------------------------------------------------
(* C34: the market closes of an item (manual or EOD) that the broker is      *)
(* working or has filled never add up to more than the quantity the item     *)
(* bought; a manual close of an item that is CLOSED or has nothing remaining *)
(* sends nothing and changes nothing; a manual close that fails leaves the   *)
(* item in ERROR.                                                            *)
MarketCloses(bk, i) ==
    {o \in 1..Len(bk) : bk[o].item = i /\ bk[o].role \in {"eod", "manual"}}

RECURSIVE CloseQty(_, _)
CloseQty(bk, S) ==
    IF S = {} THEN 0
    ELSE LET o == CHOOSE x \in S : TRUE
         IN (IF Live(bk[o]) THEN bk[o].qty ELSE bk[o].cum) + CloseQty(bk, S \ {o})

BoughtQty(bk, i) ==
    LET e == {o \in 1..Len(bk) : bk[o].item = i /\ bk[o].role = "entry"}
    IN IF e = {} THEN 0 ELSE bk[CHOOSE o \in e : TRUE].cum

OneMarketClose == \A i \in ItemIds : CloseQty(broker, MarketCloses(broker, i)) <= BoughtQty(broker, i)

ManualCloseGuarded ==
    \A i \in ItemIds :
       ManualCloseItem(i)
          => /\ (items[i].status = "CLOSED" \/ Remaining(items[i]) <= 0)
                  => UNCHANGED <<items, orders, broker, jobs, event_logs>>
             /\ (items' # items /\ Len(broker') = Len(broker))
                  => items'[i].status = "ERROR"

C34_ManualCloseToleratesWorker ==
    /\ []OneMarketClose
    /\ [][ManualCloseGuarded]_vars

-----------------------------------------------------------------------------
(* C35: no two items carry the same broker hold id, whatever sequence of     *)
(* sync steps has run.                                                       *)
C35_HoldIdOnOneItem ==
    \A i \in ItemIds : \A j \in ItemIds :
       (i # j /\ items[i].hold_id # "") => items[j].hold_id # items[i].hold_id

-----------------------------------------------------------------------------
(* C36: a hold id an item has is never changed or cleared; the item the     *)
(* first record of a snapshot is given to keeps that record's id whatever    *)
(* records follow; and the item that gets a hold id has no last_error left.  *)
FirstRecordKept(positions) ==
    LET target == HoldTarget(items, positions[1])
    IN target # NULL => SyncPositions(items, positions)[target].hold_id = positions[1].HoldID

C36_HoldIdWriteOnce ==
    /\ [][\A i \in ItemIds :
            /\ items[i].hold_id # "" => items'[i].hold_id = items[i].hold_id
            /\ HoldIdAssigned(i) => items'[i].last_error = ""]_vars
    /\ [](pc = "sync" => \A positions \in PositionSnapshots \ {<<>>} : FirstRecordKept(positions))

(* a filled row that had the stall error has got a hold id and lost the      *)
(* error, the other filled row still has it                                  *)
C36_Witness ==
    /\ pc = "sync" /\ Len(items) = 2
    /\ items[1].hold_id = "E1" /\ items[1].entry_filled_qty > 0 /\ items[1].last_error = ""
    /\ items[2].hold_id = "" /\ items[2].entry_filled_qty > 0 /\ items[2].last_error = "hold"

-----------------------------------------------------------------------------
(* C37: the finalize step takes out of RUNNING every job all of whose items  *)
(* are CLOSED, ERROR or CANCELLED.                                           *)
TerminalItem(it) == it.status \in {"CLOSED", "ERROR", "CANCELLED"}

AllItemsTerminal(j) ==
    /\ \E i \in ItemIds : items[i].batch_job_id = j
    /\ \A i \in ItemIds : items[i].batch_job_id = j => TerminalItem(items[i])

C37_JobTermination ==
    [][\A j \in JobIds :
          (pc = "finalize" /\ jobs[j].status = "RUNNING" /\ AllItemsTerminal(j))
             => jobs'[j].status # "RUNNING"]_vars

-----------------------------------------------------------------------------
(* C38: an item that is CANCELLED stays CANCELLED and no order is ever sent  *)
(* for it, whatever ticks follow the cancel; a job that is CANCELLED is      *)
(* never started.                                                            *)
C38_CancelledNeverExecuted ==
    /\ [](\A i \in ItemIds :
             items[i].status = "CANCELLED"
                => /\ items[i].entry_order_id = NULL
                   /\ \A o \in 1..Len(broker) : broker[o].item # i)
    /\ [][/\ \A i \in ItemIds :
              items[i].status = "CANCELLED" => items'[i].status = "CANCELLED"
          /\ \A j \in JobIds :
              jobs[j].status = "CANCELLED" => jobs'[j].status = "CANCELLED"]_vars

(* the job of a cancelled item has been started and the entry of its other   *)
(* item has been placed                                                      *)
C38_Witness ==
    /\ Len(items) = 2 /\ jobs[1].status = "RUNNING"
    /\ items[1].status = "CANCELLED"
    /\ items[2].entry_order_id # NULL /\ Len(broker) = 1

-----------------------------------------------------------------------------
(* C39: the execution, sync, OCO, EOD and finalize steps leave the items of  *)
(* a job that is DONE, ERROR or CANCELLED as they are and send no order for  *)
(* them.                                                                     *)
WorkerStep == pc \in {"execution", "sync", "oco", "eod", "finalize"}

JobFinished(i) == jobs[items[i].batch_job_id].status \in {"DONE", "ERROR", "CANCELLED"}

C39_FinishedJobsLeftAlone ==
    [][WorkerStep => \A i \in ItemIds :
                        JobFinished(i) => items'[i] = items[i] /\ SentFor(i) = {}]_vars

-----------------------------------------------------------------------------
(* C40: _run_with_db_retry runs the action at most retries + 1 times (4 by   *)
(* default); it runs it again only after 'database is locked'; it returns    *)
(* the result of the first run that succeeds; it raises the lock error once  *)
(* the last of the retries + 1 runs has met it, and any other error at once; *)
(* and it always ends.                                                       *)
RetryEnded == db_retry.status \in {"returned", "raised"}

C40_BoundedRetry ==
    /\ [](db_retry.runs <= db_retry.retries + 1)
    /\ [][/\ (db_retry.runs >= 1 /\ db_retry'.runs > db_retry.runs) => db_retry.last = "locked"
          /\ db_retry'.runs \in {db_retry.runs, db_retry.runs + 1}
          /\ db_retry'.last = "ok"
                => db_retry'.status = "returned" /\ db_retry'.result \in ActionResults
          /\ db_retry'.last \in {"operational", "error"} => db_retry'.status = "raised"
          /\ db_retry'.last = "locked"
                => IF db_retry'.runs = db_retry.retries + 1
                   THEN db_retry'.status = "raised"
                   ELSE db_retry'.status = "running"
          /\ RetryEnded => UNCHANGED db_retry]_vars
    /\ [](db_retry.status = "returned" => db_retry.last = "ok")
    /\ <>RetryEnded

(* the default of three retries: the fourth run has met the lock as well and *)
(* the error has been raised                                                 *)
C40_Witness ==
    /\ db_retry.retries = DefaultRetries /\ db_retry.runs = DefaultRetries + 1
    /\ db_retry.last = "locked" /\ db_retry.status = "raised"

====
